---- MODULE Spec2Model ----
(***************************************************************************)
(* Resume parsing core of resume_generator: the section segmenter         *)
(* (section_detection_service.detect_sections), the text normalizer, the  *)
(* contact extraction with its regex fallback, the entry validation of    *)
(* the list parsers and the parse_resume pipeline.                        *)
(*                                                                         *)
(* Text representation.  A Python str is a sequence of atoms.  An atom is *)
(* either a maximal run of letters (a word, written as one TLA+ string)   *)
(* or one single non-letter character (a digit, a blank, a newline, a     *)
(* punctuation mark).  Every str has exactly one such sequence, and the   *)
(* string operations of the code (==, startswith, endswith, in, strip,    *)
(* splitlines, join, slicing by lines) act on the atoms as they act on    *)
(* the characters whenever the pattern is delimited by non-letters or by  *)
(* the ends of the string, which is the case of every pattern below.      *)
(* Python None is the one-atom sequence NoneVal, which no text contains.  *)
(***************************************************************************)
EXTENDS Integers, Sequences, FiniteSets, TLC

VARIABLES
  text,          \* detect_sections: the argument
  seg_pc,        \* detect_sections: "call" before the call, "returned" after
  lines,         \* detect_sections: text.splitlines()
  header_spans,  \* detect_sections: the sorted (section_key, line_index) list
  slices,        \* detect_sections: per header, the slice lines[start_line:end_line] it took
  sections,      \* detect_sections: the returned dict
  norm_in,       \* _normalize_text: the raw text first passed in
  norm_prev,     \* _normalize_text: the argument of the latest call
  norm_out,      \* _normalize_text: the value the latest call returned
  norm_calls,    \* _normalize_text: number of calls made, each on the previous result
  c_text,        \* _parse_personal_details: the argument
  c_pc,          \* _parse_personal_details: "call", "extractor" (awaiting the answer), "returned"
  email_fallback,  \* _parse_personal_details: the local of that name
  phone_fallback,  \* _parse_personal_details: the local of that name
  urls_fallback,   \* _parse_personal_details: the local of that name
  c_outcome,     \* how the extractor call ended: "value_error", "exception", "dict"
  c_data,        \* _parse_personal_details: the local data, the dict the extractor answered
  contacts,      \* _parse_personal_details: the returned Contacts
  e_parser,      \* the list parser called: "experience", "education", "certifications"
  e_pc,          \* the list parser: "call" with the extractor's reply in flight, "returned"
  e_reply,       \* the list parser: the reply of the extractor to its prompt
  e_result,      \* the list parser: the returned Optional[list]
  e_kept,        \* per returned entry, the index of the reply item it was built from
  p_text,        \* parse_resume: the argument
  p_pc,          \* parse_resume: "call", the field-group about to be parsed, "returned"
  normalized_text,  \* parse_resume: the local of that name
  p_sections,    \* parse_resume: the local sections
  p_calls,       \* parse_resume: the invocations of the extractor so far, in order
  p_replies,     \* parse_resume: what the extractor did on each of them, in order
  resume,        \* parse_resume: the locals that become the returned ResumeData
  f_pc,          \* a function called on its own: "call" before the call, "returned" after
  f_arg,         \* its argument, and after the call the object the argument refers to
  f_ret,         \* the value it returned
  p_done,        \* parse_resume with its blocks reordered: the field-groups evaluated so far
  p_answers      \* the same: what the extractor answers to the call of each field-group

segVars == <<text, seg_pc, lines, header_spans, slices, sections>>

normVars == <<norm_in, norm_prev, norm_out, norm_calls>>

contactVars ==
  <<c_text, c_pc, email_fallback, phone_fallback, urls_fallback, c_outcome, c_data,
    contacts>>

entryVars == <<e_parser, e_pc, e_reply, e_result, e_kept>>

parseVars == <<p_text, p_pc, normalized_text, p_sections, p_calls, p_replies, resume>>

fnVars == <<f_pc, f_arg, f_ret>>

orderVars == <<p_done, p_answers>>

vars == <<segVars, normVars, contactVars, entryVars, parseVars, fnVars, orderVars>>

---------------------------------------------------------------------------
(* Bounds of the checked input space *)

MaxLines == 4

MaxTextLen == 5

MaxNormalizeCalls == 2

MaxContactLines == 3

MaxEntries == 2

MaxDocLines == 2

MaxSortEntries == 3

\* the longest argument of _split_name, in words, separators and hyphens
MaxNameLen == 5

\* the most numbers and words in an argument of _normalize_date
MaxDateParts == 3

\* the most education entries of a record handed to the response boundary
MaxDumpEntries == 1

MaxSections == 2

---------------------------------------------------------------------------
(* Python values and str primitives *)

NoneVal == <<"<None>">>

Truthy(v) == v # NoneVal /\ v # <<>>

\* str.strip() / str.isspace(): the whitespace characters
Whitespace == {" ", "\t", "\n", "\r", "\f"}

\* the one-character atoms; every other atom is a run of letters
Digits == {"0", "1", "2", "3", "4", "5", "6", "7", "8", "9"}

\* the character U+2022, the bullet
Bullet == "<U+2022>"

PunctChars ==
  {".", "_", "%", "+", "-", "@", "(", ")", ":", "/", "'", ",", "|", "&", "#", ";", "!", "?",
   "[", "]", "{", "}", "*", Bullet}

NonLetters == Digits \cup Whitespace \cup PunctChars

IsWord(a) == a \notin NonLetters

\* the words the checked inputs and the results are made of, by number of letters;
\* the words of the heading tables are longer than one letter
WordsByLen ==
  <<
    {"I", "O", "S", "W", "X", "a", "c", "d", "i", "o", "s", "w", "x", "y", "z"},
    {"HR", "ID", "by", "hr", "id", "io", "to"},
    {"AWS", "Ann", "BSc", "Dev", "HSC", "Led", "MIT", "Mar", "Now", "ann", "aws",
     "bsc", "com", "dev", "hsc", "led", "mar", "mit", "not", "now"},
    {"Acme", "Cert", "Engg", "John", "Lead", "Pune", "SSLC", "TILL", "acme", "cert",
     "date", "engg", "http", "john", "lead", "link", "pune", "soon", "sslc", "till",
     "work"},
    {"Built", "March", "Smith", "built", "gmail", "https", "march", "smith", "teams"},
    {"Amazon", "Degree", "Issued", "Matric", "Python", "School", "Senior", "Skills",
     "amazon", "degree", "github", "issued", "jsmith", "matric", "python", "school",
     "senior", "skills"},
    {"College", "Current", "Ongoing", "Present", "Project", "Summary", "college",
     "current", "ongoing", "present", "project", "summary"},
    {"Engineer", "Language", "Projects", "Software", "Training", "engineer",
     "language", "projects", "software", "training"},
    {"EDUCATION", "Education", "Languages", "Presently", "education", "languages",
     "localhost", "presently"},
    {"EXPERIENCE", "Experience", "University", "experience", "university"},
    {"Certificate", "Internships", "certificate", "internships"},
    {"Achievements", "achievements"},
    {},
    {"Certifications", "certifications"}
  >>

SingleLetterWords == WordsByLen[1]

\* len(word)
WordLen(a) == CHOOSE n \in DOMAIN WordsByLen : a \in WordsByLen[n]

\* the pairs (word, keyword) where the keyword is a proper part of the word, for
\* the lower-cased words above and the keywords the code looks for with `in`
ProperSubstrings ==
  {<<"certifications", "certification">>,
   <<"march", "mar">>,
   <<"projects", "project">>,
   <<"summary", "mar">>}

IsLongWord(a) == IsWord(a) /\ a \notin SingleLetterWords

\* a regex character class: the listed one-character atoms, and the letters or not
InClass(a, chars, letters) == IF a \in NonLetters THEN a \in chars ELSE letters

\* the length of the longest run of the class starting at position i of t
ClassRun(t, i, chars, letters) ==
  CHOOSE n \in 0..(Len(t) - i + 1) :
    /\ \A k \in i..(i + n - 1) : InClass(t[k], chars, letters)
    /\ (i + n > Len(t) \/ ~InClass(t[i + n], chars, letters))

SetMax(S) == CHOOSE x \in S : \A y \in S : y <= x

\* len(s) >= 2 in characters
AtLeastTwoChars(s) == Len(s) >= 2 \/ (Len(s) = 1 /\ IsLongWord(s[1]))

\* len(s) in characters
RECURSIVE CharLen(_)
CharLen(s) ==
  IF s = <<>> THEN 0
  ELSE (IF IsWord(Head(s)) THEN WordLen(Head(s)) ELSE 1) + CharLen(Tail(s))

\* str.lower() on the atoms that carry an upper-case letter
LowerPairs ==
  { <<"AWS", "aws">>, <<"Achievements", "achievements">>, <<"Acme", "acme">>,
    <<"Amazon", "amazon">>, <<"Ann", "ann">>, <<"BSc", "bsc">>, <<"Built", "built">>,
    <<"Cert", "cert">>, <<"Certificate", "certificate">>,
    <<"Certifications", "certifications">>, <<"College", "college">>,
    <<"Current", "current">>, <<"Degree", "degree">>, <<"Dev", "dev">>,
    <<"EDUCATION", "education">>, <<"EXPERIENCE", "experience">>,
    <<"Education", "education">>, <<"Engg", "engg">>, <<"Engineer", "engineer">>,
    <<"Experience", "experience">>, <<"HR", "hr">>, <<"HSC", "hsc">>, <<"I", "i">>,
    <<"ID", "id">>, <<"Internships", "internships">>, <<"Issued", "issued">>,
    <<"John", "john">>, <<"Language", "language">>, <<"Languages", "languages">>,
    <<"Lead", "lead">>, <<"Led", "led">>, <<"MIT", "mit">>, <<"Mar", "mar">>,
    <<"March", "march">>, <<"Matric", "matric">>, <<"Now", "now">>, <<"O", "o">>,
    <<"Ongoing", "ongoing">>, <<"Present", "present">>, <<"Presently", "presently">>,
    <<"Project", "project">>, <<"Projects", "projects">>, <<"Pune", "pune">>,
    <<"Python", "python">>, <<"S", "s">>, <<"SSLC", "sslc">>, <<"School", "school">>,
    <<"Senior", "senior">>, <<"Skills", "skills">>, <<"Smith", "smith">>,
    <<"Software", "software">>, <<"Summary", "summary">>, <<"TILL", "till">>,
    <<"Training", "training">>, <<"University", "university">>, <<"W", "w">>,
    <<"X", "x">> }

LowerTable ==
  [a \in {p[1] : p \in LowerPairs} |-> (CHOOSE p \in LowerPairs : p[1] = a)[2]]

LowerAtom(a) == IF a \in DOMAIN LowerTable THEN LowerTable[a] ELSE a

Lower(s) == [n \in 1..Len(s) |-> LowerAtom(s[n])]

RECURSIVE LStrip(_)
LStrip(s) == IF s # <<>> /\ Head(s) \in Whitespace THEN LStrip(Tail(s)) ELSE s

RECURSIVE RStrip(_)
RStrip(s) ==
  IF s # <<>> /\ s[Len(s)] \in Whitespace THEN RStrip(SubSeq(s, 1, Len(s) - 1)) ELSE s

Strip(s) == RStrip(LStrip(s))

\* str.split(): the maximal runs of non-whitespace
RECURSIVE SplitWords(_)
SplitWords(s) ==
  LET t == LStrip(s)
  IN  IF t = <<>> THEN <<>>
      ELSE LET n == CHOOSE m \in 1..Len(t) :
                      /\ \A k \in 1..m : t[k] \notin Whitespace
                      /\ (m = Len(t) \/ t[m + 1] \in Whitespace)
           IN  <<SubSeq(t, 1, n)>> \o SplitWords(SubSeq(t, n + 1, Len(t)))

StartsWith(s, p) == Len(p) <= Len(s) /\ SubSeq(s, 1, Len(p)) = p

EndsWith(s, p) == Len(p) <= Len(s) /\ SubSeq(s, Len(s) - Len(p) + 1, Len(s)) = p

\* p in s
Contains(s, p) ==
  \E k \in 0..(Len(s) - Len(p)) : SubSeq(s, k + 1, k + Len(p)) = p

\* seq[a:b] with 0-based a, b as Python slices a list (empty when a >= b)
PySlice(seq, a, b) ==
  LET hi == IF b > Len(seq) THEN Len(seq) ELSE b
  IN  IF a >= hi THEN <<>> ELSE SubSeq(seq, a + 1, hi)

\* sep.join(parts)
RECURSIVE Join(_, _)
Join(parts, sep) ==
  IF parts = <<>> THEN <<>>
  ELSE IF Len(parts) = 1 THEN parts[1]
  ELSE parts[1] \o sep \o Join(Tail(parts), sep)

\* str.splitlines(): a line ends at \n, \r, \r\n or \f; no empty last line
RECURSIVE SplitLinesFrom(_, _)
SplitLinesFrom(s, cur) ==
  IF s = <<>> THEN (IF cur = <<>> THEN <<>> ELSE <<cur>>)
  ELSE IF Head(s) = "\r" /\ Len(s) >= 2 /\ s[2] = "\n"
       THEN <<cur>> \o SplitLinesFrom(Tail(Tail(s)), <<>>)
  ELSE IF Head(s) \in {"\n", "\r", "\f"}
       THEN <<cur>> \o SplitLinesFrom(Tail(s), <<>>)
  ELSE SplitLinesFrom(Tail(s), Append(cur, Head(s)))

SplitLines(s) == SplitLinesFrom(s, <<>>)

---------------------------------------------------------------------------
(* Text normalizer: nlp_parsing_service._normalize_text *)

\* str.replace(old, new) for a one-character old and new
ReplaceAtom(s, old, new) == [n \in 1..Len(s) |-> IF s[n] = old THEN new ELSE s[n]]

\* text.replace('\r\n', '\n')
RECURSIVE ReplaceCRLF(_)
ReplaceCRLF(s) ==
  IF s = <<>> THEN <<>>
  ELSE IF Head(s) = "\r" /\ Len(s) >= 2 /\ s[2] = "\n"
       THEN <<"\n">> \o ReplaceCRLF(Tail(Tail(s)))
  ELSE <<Head(s)>> \o ReplaceCRLF(Tail(s))

\* the length of the run of atoms of class cls at the head of s
RECURSIVE RunLen(_, _)
RunLen(s, cls) == IF s # <<>> /\ Head(s) \in cls THEN 1 + RunLen(Tail(s), cls) ELSE 0

\* re.sub(r'[ \t]+', ' ', text)
RECURSIVE CollapseBlanks(_)
CollapseBlanks(s) ==
  IF s = <<>> THEN <<>>
  ELSE IF Head(s) \in {" ", "\t"}
       THEN <<" ">> \o CollapseBlanks(SubSeq(s, RunLen(s, {" ", "\t"}) + 1, Len(s)))
  ELSE <<Head(s)>> \o CollapseBlanks(Tail(s))

\* re.sub(r'\n{3,}', '\n\n', text)
RECURSIVE CollapseNewlines(_)
CollapseNewlines(s) ==
  IF s = <<>> THEN <<>>
  ELSE IF Head(s) = "\n"
       THEN LET run == RunLen(s, {"\n"})
            IN  (IF run >= 3 THEN <<"\n", "\n">> ELSE SubSeq(s, 1, run))
                \o CollapseNewlines(SubSeq(s, run + 1, Len(s)))
  ELSE <<Head(s)>> \o CollapseNewlines(Tail(s))

\* text.replace('|', 'I').replace('0', 'O')
FixOCR(s) == ReplaceAtom(ReplaceAtom(s, "|", "I"), "0", "O")

_normalize_text_LateLineEndings(t) ==
  Strip(FixOCR(ReplaceAtom(ReplaceCRLF(CollapseNewlines(CollapseBlanks(t))), "\r", "\n")))

_normalize_text(t) ==
  Strip(FixOCR(CollapseNewlines(CollapseBlanks(ReplaceAtom(ReplaceCRLF(t), "\r", "\n")))))

---------------------------------------------------------------------------
(* Pattern library: the heading synonyms of section_detection_service *)

CERTIFICATE_HEADINGS ==
  <<
    <<"certificate">>,
    <<"certificates">>,
    <<"certification">>,
    <<"certifications">>,
    <<"courses">>,
    <<"trainings">>,
    <<"achievements">>,
    <<"skill", " ", "certifications">>,
    <<"online", " ", "courses">>,
    <<"licenses">>,
    <<"credentials">>
  >>

SKILL_HEADINGS ==
  <<
    <<"technical", " ", "skills">>,
    <<"technical", " ", "skill">>,
    <<"skills">>,
    <<"skillset">>,
    <<"tech", " ", "skills">>,
    <<"core", " ", "skills">>,
    <<"key", " ", "skills">>,
    <<"hard", " ", "skills">>,
    <<"professional", " ", "skills">>,
    <<"technical", " ", "proficiencies">>,
    <<"technical", " ", "proficiency">>,
    <<"technical", " ", "expertise">>,
    <<"software", " ", "skills">>,
    <<"tools", " ", "&", " ", "technologies">>,
    <<"tools", " ", "and", " ", "technologies">>,
    <<"technologies">>,
    <<"tech", " ", "stack">>,
    <<"technical", " ", "toolkit">>,
    <<"programming", " ", "skills">>,
    <<"programming", " ", "languages">>,
    <<"programming", " ", "language">>,
    <<"it", " ", "skills">>,
    <<"computer", " ", "skills">>,
    <<"domain", " ", "skills">>,
    <<"specialized", " ", "skills">>,
    <<"primary", " ", "skills">>,
    <<"relevant", " ", "skills">>,
    <<"development", " ", "skills">>,
    <<"technical", " ", "competencies">>,
    <<"skill", " ", "highlights">>,
    <<"skills", " ", "highlights">>,
    <<"languages">>,
    <<"language">>,
    <<"Languages">>,
    <<"Language">>,
    <<"tools">>,
    <<"tool">>,
    <<"technical", " ", "tools">>,
    <<"software", " ", "tools">>,
    <<"developer", " ", "tools">>
  >>

SUMMARY_HEADINGS ==
  <<
    <<"summary">>,
    <<"professional", " ", "summary">>,
    <<"career", " ", "summary">>,
    <<"profile">>,
    <<"about", " ", "me">>,
    <<"about">>,
    <<"objective">>,
    <<"career", " ", "objective">>,
    <<"professional", " ", "objective">>,
    <<"personal", " ", "statement">>,
    <<"overview">>,
    <<"executive", " ", "summary">>
  >>

EDUCATION_HEADINGS ==
  <<
    <<"education">>,
    <<"academic">>,
    <<"academics">>,
    <<"academic", " ", "background">>,
    <<"educational", " ", "background">>,
    <<"educational", " ", "qualifications">>,
    <<"qualification">>,
    <<"qualifications">>,
    <<"education", " ", "&", " ", "qualifications">>,
    <<"academic", " ", "qualifications">>,
    <<"schooling">>,
    <<"education", " ", "details">>,
    <<"education", " ", "history">>
  >>

EXPERIENCE_HEADINGS ==
  <<
    <<"experience">>,
    <<"work", " ", "experience">>,
    <<"professional", " ", "experience">>,
    <<"employment">>,
    <<"employment", " ", "history">>,
    <<"work", " ", "history">>,
    <<"career", " ", "history">>,
    <<"job", " ", "experience">>,
    <<"industry", " ", "experience">>,
    <<"internship">>,
    <<"internships">>,
    <<"internship", " ", "experience">>,
    <<"industrial", " ", "training">>,
    <<"training">>,
    <<"apprenticeship">>,
    <<"practical", " ", "experience">>,
    <<"hands", "-", "on", " ", "experience">>
  >>

PROJECT_HEADINGS ==
  <<
    <<"projects">>,
    <<"project">>,
    <<"personal", " ", "projects">>,
    <<"side", " ", "projects">>,
    <<"portfolio", " ", "projects">>,
    <<"key", " ", "projects">>,
    <<"notable", " ", "projects">>,
    <<"selected", " ", "projects">>,
    <<"project", " ", "experience">>,
    <<"project", " ", "work">>
  >>

ACHIEVEMENT_HEADINGS ==
  <<
    <<"achievements">>,
    <<"achievement">>,
    <<"awards">>,
    <<"award">>,
    <<"honors">>,
    <<"honor">>,
    <<"accomplishments">>,
    <<"accomplishment">>,
    <<"recognition">>,
    <<"recognitions">>,
    <<"awards", " ", "&", " ", "achievements">>,
    <<"honors", " ", "&", " ", "awards">>
  >>

\* the keys of SECTION_HEADERS in the order the dict is iterated
SectionOrder ==
  <<"summary", "experience", "education", "skills", "certifications",
    "projects", "achievements">>

SectionKeys == {SectionOrder[n] : n \in 1..Len(SectionOrder)}

SECTION_HEADERS ==
  [key \in SectionKeys |->
     CASE key = "summary"        -> SUMMARY_HEADINGS
       [] key = "experience"     -> EXPERIENCE_HEADINGS
       [] key = "education"      -> EDUCATION_HEADINGS
       [] key = "skills"         -> SKILL_HEADINGS
       [] key = "certifications" -> CERTIFICATE_HEADINGS
       [] key = "projects"       -> PROJECT_HEADINGS
       [] key = "achievements"   -> ACHIEVEMENT_HEADINGS]

\* v_norm = variant.lower().strip(), for every variant of every key
V_NORM ==
  [key \in SectionKeys |->
     [n \in 1..Len(SECTION_HEADERS[key]) |-> Strip(Lower(SECTION_HEADERS[key][n]))]]

---------------------------------------------------------------------------
(* Section segmenter: detect_sections *)

\* the six-way heading test of one lower-cased, trimmed line against one variant
VariantMatches(normalized, v_norm) ==
  \/ normalized = v_norm
  \/ StartsWith(normalized, v_norm \o <<" ">>)
  \/ EndsWith(normalized, <<" ">> \o v_norm)
  \/ Contains(<<" ">> \o normalized \o <<" ">>, <<" ">> \o v_norm \o <<" ">>)
  \/ StartsWith(normalized, v_norm \o <<":">>)
  \/ StartsWith(normalized, v_norm \o <<"-">>)

\* the inner loop over the variants of one key: it stops at the first match
KeyMatches(key, normalized) ==
  \E n \in 1..Len(SECTION_HEADERS[key]) : VariantMatches(normalized, V_NORM[key][n])

\* the loop over SECTION_HEADERS.items() for line i: the break leaves only
\* the variant loop, so every key with a matching variant is appended
RECURSIVE ScanKeys(_, _, _, _)
ScanKeys(k, i, normalized, spans) ==
  IF k > Len(SectionOrder) THEN spans
  ELSE LET key == SectionOrder[k]
           hit == KeyMatches(key, normalized)
           dup == \E n \in 1..Len(spans) : spans[n] = <<key, i>>
       IN  ScanKeys(k + 1, i, normalized,
                    IF hit /\ ~dup THEN Append(spans, <<key, i>>) ELSE spans)

\* the loop over enumerate(lines); i is the 0-based line index
RECURSIVE ScanLines(_, _, _)
ScanLines(ls, i, spans) ==
  IF i >= Len(ls) THEN spans
  ELSE LET normalized == Lower(Strip(ls[i + 1]))
       IN  IF normalized = <<>> THEN ScanLines(ls, i + 1, spans)
           ELSE ScanLines(ls, i + 1, ScanKeys(1, i, normalized, spans))

\* header_spans.sort(key=lambda x: x[1]): a stable sort on the line index
RECURSIVE InsertByLine(_, _)
InsertByLine(sorted, x) ==
  IF sorted = <<>> THEN <<x>>
  ELSE IF sorted[Len(sorted)][2] <= x[2] THEN Append(sorted, x)
  ELSE Append(InsertByLine(SubSeq(sorted, 1, Len(sorted) - 1), x), sorted[Len(sorted)])

RECURSIVE SortByLine(_, _)
SortByLine(spans, acc) ==
  IF spans = <<>> THEN acc ELSE SortByLine(Tail(spans), InsertByLine(acc, Head(spans)))

\* start_line and end_line of the header at 1-based position idx
StartLine(spans, idx) == spans[idx][2] + 1

EndLine_ToEndOfDocument(spans, idx, ls) == Len(ls)

EndLine(spans, idx, ls) == IF idx < Len(spans) THEN spans[idx + 1][2] ELSE Len(ls)

SliceBody(spans, idx, ls) ==
  Strip(Join(PySlice(ls, StartLine(spans, idx), EndLine(spans, idx, ls)), <<"\n">>))

MergeBody_SingleNewline(old, body) == IF old # <<>> THEN old \o <<"\n">> \o body ELSE body

\* the merge of one body into sections[key]
MergeBody(old, body) == IF old # <<>> THEN old \o <<"\n", "\n">> \o body ELSE body

\* the loop over enumerate(header_spans)
RECURSIVE SliceLoop(_, _, _, _)
SliceLoop(spans, idx, ls, secs) ==
  IF idx > Len(spans) THEN secs
  ELSE LET key  == spans[idx][1]
           body == SliceBody(spans, idx, ls)
       IN  SliceLoop(spans, idx + 1, ls, [secs EXCEPT ![key] = MergeBody(secs[key], body)])

EmptySections == [key \in SectionKeys |-> <<>>]

\* header_spans after the scan and the sort
SortedHeaderSpans(ls) == SortByLine(ScanLines(ls, 0, <<>>), <<>>)

SectionsFrom_NoDefaults(ls, spans) ==
  IF spans = <<>> THEN <<>> ELSE SliceLoop(spans, 1, ls, EmptySections)

\* the dict returned for the split lines and the sorted header_spans
SectionsFrom(ls, spans) ==
  IF spans = <<>> THEN EmptySections ELSE SliceLoop(spans, 1, ls, EmptySections)

detect_sections(t) == SectionsFrom(SplitLines(t), SortedHeaderSpans(SplitLines(t)))

\* the slice each header takes, as [key, line, start, stop]
SlicesFrom(ls, spans) ==
  [idx \in 1..Len(spans) |->
     [key |-> spans[idx][1], line |-> spans[idx][2],
      start |-> StartLine(spans, idx), stop |-> EndLine(spans, idx, ls)]]

---------------------------------------------------------------------------
(* Contact extraction: the regex fallbacks and validators of nlp_parsing_service *)

\* EMAIL_REGEX = [a-zA-Z0-9._%+-]+@[a-zA-Z0-9.-]+\.[a-zA-Z]{2,}
EmailLocalChars == Digits \cup {".", "_", "%", "+", "-"}

EmailDomainChars == Digits \cup {".", "-"}

\* the position of the last atom of the match of EMAIL_REGEX that starts at
\* position i of t, or 0 when there is none: the local part is the whole run
\* before the '@'; the domain run is given back up to its last '.' that is
\* followed by two letters or more
EmailMatchEnd(t, i) ==
  LET r  == ClassRun(t, i, EmailLocalChars, TRUE)
      at == i + r
  IN  IF r = 0 \/ at > Len(t) \/ t[at] # "@" THEN 0
      ELSE LET d    == at + 1
               m    == ClassRun(t, d, EmailDomainChars, TRUE)
               dots == {p \in (d + 1)..(d + m - 2) : t[p] = "." /\ IsLongWord(t[p + 1])}
           IN  IF dots = {} THEN 0 ELSE SetMax(dots) + 1

\* EMAIL_REGEX.findall(t), scanning from position i
RECURSIVE FindAllEmails(_, _)
FindAllEmails(t, i) ==
  IF i > Len(t) THEN <<>>
  ELSE LET e == EmailMatchEnd(t, i)
       IN  IF e = 0 THEN FindAllEmails(t, i + 1)
           ELSE <<SubSeq(t, i, e)>> \o FindAllEmails(t, e + 1)

\* PHONE_REGEX = (\+?\d[\d\s().-]{7,}\d)
PhoneChars == Digits \cup Whitespace \cup {"(", ")", ".", "-"}

\* the position of the last atom of the match of PHONE_REGEX that starts at
\* position i of t, or 0: the run after the first digit is given back up to
\* its last digit that leaves seven characters or more before it
PhoneMatchEnd(t, i) ==
  LET s == IF i <= Len(t) /\ t[i] = "+" THEN i + 1 ELSE i
  IN  IF s > Len(t) \/ t[s] \notin Digits THEN 0
      ELSE LET m    == ClassRun(t, s + 1, PhoneChars, FALSE)
               ends == {e \in (s + 8)..(s + m) : t[e] \in Digits}
           IN  IF ends = {} THEN 0 ELSE SetMax(ends)

\* PHONE_REGEX.findall(t), scanning from position i
RECURSIVE FindAllPhones(_, _)
FindAllPhones(t, i) ==
  IF i > Len(t) THEN <<>>
  ELSE LET e == PhoneMatchEnd(t, i)
       IN  IF e = 0 THEN FindAllPhones(t, i + 1)
           ELSE <<SubSeq(t, i, e)>> \o FindAllPhones(t, e + 1)

\* re.sub(r'[\s\-()]', '', phone.strip())
_clean_phone(phone) ==
  SelectSeq(Strip(phone), LAMBDA a : a \notin (Whitespace \cup {"-", "(", ")"}))

\* re.match(r'^\+?\d{10,15}$', cleaned); $ also matches before a final newline
PhoneShapeOk(cleaned) ==
  LET body0 == IF cleaned # <<>> /\ cleaned[Len(cleaned)] = "\n"
               THEN SubSeq(cleaned, 1, Len(cleaned) - 1) ELSE cleaned
      body  == IF body0 # <<>> /\ Head(body0) = "+" THEN Tail(body0) ELSE body0
  IN  /\ Len(body) >= 10
      /\ Len(body) <= 15
      /\ \A n \in 1..Len(body) : body[n] \in Digits

_validate_phone_Unchecked(phone) == IF ~Truthy(phone) THEN NoneVal ELSE _clean_phone(phone)

_validate_phone(phone) ==
  IF ~Truthy(phone) THEN NoneVal
  ELSE LET cleaned == _clean_phone(phone)
       IN  IF PhoneShapeOk(cleaned) THEN cleaned ELSE NoneVal

_validate_email(email) ==
  IF ~Truthy(email) THEN NoneVal
  ELSE LET stripped == Strip(email)
       IN  IF EmailMatchEnd(stripped, 1) # 0 THEN Lower(stripped) ELSE NoneVal

\* the header region: "\n".join(text.splitlines()[:50])
HeaderLineCount == 50

HeaderRegion(t) ==
  LET ls == SplitLines(t)
  IN  Join(PySlice(ls, 0, HeaderLineCount), <<"\n">>)

personal_domains == {"gmail", "outlook", "yahoo", "hotmail", "icloud", "protonmail"}

\* any(domain in email_lower for domain in personal_domains)
IsPersonalEmail(email) == \E n \in 1..Len(email) : LowerAtom(email[n]) \in personal_domains

\* the choice among the matches: the first personal one, else the first
PreferPersonal(matches) ==
  IF \E n \in 1..Len(matches) : IsPersonalEmail(matches[n])
  THEN Lower(matches[CHOOSE n \in 1..Len(matches) :
                       /\ IsPersonalEmail(matches[n])
                       /\ \A m \in 1..(n - 1) : ~IsPersonalEmail(matches[m])])
  ELSE Lower(matches[1])

_extract_email_fallback_NoLower(t) ==
  LET matches == FindAllEmails(HeaderRegion(t), 1)
  IN  IF matches # <<>> THEN matches[1] ELSE NoneVal

_extract_email_fallback(t) ==
  LET matches     == FindAllEmails(HeaderRegion(t), 1)
      all_matches == FindAllEmails(t, 1)
  IN  IF matches # <<>> THEN PreferPersonal(matches)
      ELSE IF all_matches # <<>> THEN PreferPersonal(all_matches)
      ELSE NoneVal

\* the loop over all_matches: the first match that validates
RECURSIVE FirstValidPhone(_)
FirstValidPhone(matches) ==
  IF matches = <<>> THEN NoneVal
  ELSE IF Truthy(_validate_phone(_clean_phone(Head(matches))))
       THEN _clean_phone(Head(matches))
  ELSE FirstValidPhone(Tail(matches))

_extract_phone_fallback(t) ==
  LET matches == FindAllPhones(HeaderRegion(t), 1)
  IN  IF matches # <<>> /\ Truthy(_validate_phone(_clean_phone(matches[1])))
      THEN _clean_phone(matches[1])
      ELSE FirstValidPhone(FindAllPhones(t, 1))

\* https?://(?:www\.)?<host>\.com/[^\s\)]+ with re.IGNORECASE: the position
\* of the last atom of the match that starts at position i of t, or 0
UrlTailChars == NonLetters \ (Whitespace \cup {")"})

UrlMatchEnd(t, i, host) ==
  IF ~(i + 3 <= Len(t) /\ LowerAtom(t[i]) \in {"http", "https"}
       /\ SubSeq(t, i + 1, i + 3) = <<":", "/", "/">>)
  THEN 0
  ELSE LET w == IF i + 5 <= Len(t) /\ LowerAtom(t[i + 4]) = "www" /\ t[i + 5] = "."
                THEN i + 6 ELSE i + 4
       IN  IF ~(w + 3 <= Len(t) /\ LowerAtom(t[w]) = host /\ t[w + 1] = "."
                /\ LowerAtom(t[w + 2]) = "com" /\ t[w + 3] = "/")
           THEN 0
           ELSE LET r == ClassRun(t, w + 4, UrlTailChars, TRUE)
                IN  IF r = 0 THEN 0 ELSE w + 3 + r

\* re.findall(pattern, text)[0], or None
FirstUrl(t, host) ==
  IF \E i \in 1..Len(t) : UrlMatchEnd(t, i, host) # 0
  THEN LET i == CHOOSE j \in 1..Len(t) :
                  /\ UrlMatchEnd(t, j, host) # 0
                  /\ \A k \in 1..(j - 1) : UrlMatchEnd(t, k, host) = 0
       IN  SubSeq(t, i, UrlMatchEnd(t, i, host))
  ELSE NoneVal

_extract_urls_fallback(t) ==
  [github_url   |-> FirstUrl(t, "github"),
   leetcode_url |-> FirstUrl(t, "leetcode"),
   linkedin_url |-> FirstUrl(t, "linkedin")]

JOB_TITLE_KEYWORDS ==
  {"engineer", "developer", "manager", "analyst", "designer", "specialist",
   "consultant", "director", "lead", "senior", "junior", "associate",
   "architect", "scientist", "researcher", "coordinator", "executive"}

ORG_KEYWORDS ==
  {"university", "college", "institute", "school", "corporation", "inc",
   "ltd", "llc", "company", "technologies", "solutions", "systems"}

\* keyword in text_lower, for some keyword of the set
HasKeyword(t, keywords) == \E n \in 1..Len(t) : LowerAtom(t[n]) \in keywords

\* re.match(r'^[A-Za-z\-\']+$', word)
NameWordOk(word) ==
  /\ word # <<>>
  /\ \A n \in 1..Len(word) : IsWord(word[n]) \/ word[n] \in {"-", "'"}

_is_likely_name(t) ==
  /\ ~HasKeyword(t, JOB_TITLE_KEYWORDS)
  /\ ~HasKeyword(t, ORG_KEYWORDS)
  /\ SplitWords(t) # <<>>
  /\ \A n \in 1..Len(SplitWords(t)) : NameWordOk(SplitWords(t)[n])

_split_name_FirstTwo(full_name) ==
  IF ~Truthy(full_name) THEN <<NoneVal, NoneVal>>
  ELSE LET words == SplitWords(Strip(full_name))
       IN  IF Len(words) = 0 THEN <<NoneVal, NoneVal>>
           ELSE IF Len(words) = 1 THEN <<words[1], NoneVal>>
           ELSE <<words[1], words[2]>>

\* the pair (first_name, last_name)
_split_name(full_name) ==
  IF ~Truthy(full_name) THEN <<NoneVal, NoneVal>>
  ELSE LET words == SplitWords(Strip(full_name))
       IN  IF Len(words) = 0 THEN <<NoneVal, NoneVal>>
           ELSE IF Len(words) = 1 THEN <<words[1], NoneVal>>
           ELSE IF Len(words) = 2 THEN <<words[1], words[2]>>
           ELSE <<words[1], Join(Tail(words), <<" ">>)>>

\* POSTCODE_INDIA.match / POSTCODE_USA.match: \b\d{n}\b at the start of s
PostcodeMatch(s, n) ==
  /\ Len(s) >= n
  /\ \A k \in 1..n : s[k] \in Digits
  /\ (Len(s) = n \/ (s[n + 1] \in NonLetters \ (Digits \cup {"_"})))

\* str.replace(old, new) for an old of several atoms
RECURSIVE ReplaceSeq(_, _, _)
ReplaceSeq(s, old, new) ==
  IF s = <<>> THEN <<>>
  ELSE IF StartsWith(s, old) THEN new \o ReplaceSeq(SubSeq(s, Len(old) + 1, Len(s)), old, new)
  ELSE <<Head(s)>> \o ReplaceSeq(Tail(s), old, new)

ContactFields ==
  {"first_name", "last_name", "desired_job_title", "email", "phone", "location",
   "country", "city", "address", "post_code", "leetcode_url", "github_url",
   "linkedin_url"}

\* Contacts(): every field None
EmptyContacts == [f \in ContactFields |-> NoneVal]

\* Contacts(email=..., phone=..., github_url=..., leetcode_url=..., linkedin_url=...)
FallbackContacts(email_fb, phone_fb, urls_fb) ==
  [EmptyContacts EXCEPT !.email = email_fb, !.phone = phone_fb,
                        !.github_url = urls_fb.github_url,
                        !.leetcode_url = urls_fb.leetcode_url,
                        !.linkedin_url = urls_fb.linkedin_url]


\* x or y
PyOr(x, y) == IF Truthy(x) THEN x ELSE y

ContactsOnValueError_Empty(email_fb, phone_fb, urls_fb) == EmptyContacts

\* the inner except ValueError: the extractor call or its JSON parsing failed
ContactsOnValueError(email_fb, phone_fb, urls_fb) ==
  FallbackContacts(email_fb, phone_fb, urls_fb)

ContactsOnException_Raises(email_fb, phone_fb, urls_fb) == [raised |-> "AttributeError"]

\* the outer except Exception: the answer had a shape the code cannot read
ContactsOnException(email_fb, phone_fb, urls_fb) ==
  IF Truthy(email_fb) \/ Truthy(phone_fb)
  THEN FallbackContacts(email_fb, phone_fb, urls_fb)
  ELSE EmptyContacts

\* the names taken from data["full_name"]
NamesFrom(raw_name) ==
  IF ~Truthy(raw_name) THEN <<NoneVal, NoneVal>>
  ELSE LET full_name == Strip(raw_name)
       IN  IF _is_likely_name(full_name) THEN _split_name(full_name)
           ELSE IF /\ Len(SplitWords(full_name)) <= 4
                   /\ \A n \in 1..Len(full_name) : full_name[n] \notin Digits
                THEN _split_name(full_name)
           ELSE <<NoneVal, NoneVal>>

\* the body of the try for a dict answer
ContactsFromData(data, email_fb, phone_fb, urls_fb) ==
  LET names     == NamesFrom(data.full_name)
      email     == PyOr(_validate_email(data.email), email_fb)
      phone_ai  == IF Truthy(data.phone) THEN _validate_phone(data.phone) ELSE NoneVal
      phone     == PyOr(phone_ai, phone_fb)
      post_code == IF Truthy(data.post_code)
                      /\ ~(PostcodeMatch(Strip(data.post_code), 6)
                           \/ PostcodeMatch(Strip(data.post_code), 5))
                   THEN NoneVal ELSE data.post_code
      title     == IF Truthy(data.desired_job_title)
                   THEN ReplaceSeq(ReplaceSeq(Strip(data.desired_job_title),
                                              <<"S", "/", "W">>, <<"Software">>),
                                   <<"Engg">>, <<"Engineer">>)
                   ELSE data.desired_job_title
      parts     == SelectSeq(<<data.city, data.country>>, Truthy)
      location  == IF ~Truthy(data.location) /\ (Truthy(data.city) \/ Truthy(data.country))
                   THEN Join(parts, <<",", " ">>)
                   ELSE data.location
      result    == [first_name        |-> names[1],
                    last_name         |-> names[2],
                    desired_job_title |-> title,
                    email             |-> email,
                    phone             |-> phone,
                    location          |-> location,
                    country           |-> data.country,
                    city              |-> data.city,
                    address           |-> data.address,
                    post_code         |-> post_code,
                    linkedin_url      |-> PyOr(data.linkedin_url, urls_fb.linkedin_url),
                    github_url        |-> PyOr(data.github_url, urls_fb.github_url),
                    leetcode_url      |-> PyOr(data.leetcode_url, urls_fb.leetcode_url)]
  IN  IF \/ Truthy(email) \/ Truthy(names[1]) \/ Truthy(phone) \/ Truthy(title)
         \/ Truthy(location) \/ Truthy(data.city) \/ Truthy(data.country)
      THEN result
      ELSE IF Truthy(email_fb) \/ Truthy(phone_fb)
           THEN FallbackContacts(email_fb, phone_fb, urls_fb)
      ELSE EmptyContacts

---------------------------------------------------------------------------
(* Helpers of the list parsers *)

\* \w of the regexes
IsWordChar(a) == IsWord(a) \/ a \in Digits \/ a = "_"

\* str.isdigit()
AllDigits(s) == s # <<>> /\ \A n \in 1..Len(s) : s[n] \in Digits

DigitChars == <<"0", "1", "2", "3", "4", "5", "6", "7", "8", "9">>

DigitVal(d) == (CHOOSE n \in 1..10 : DigitChars[n] = d) - 1

\* int(s) of a digit string
RECURSIVE IntOf(_)
IntOf(ds) ==
  IF ds = <<>> THEN 0 ELSE IntOf(SubSeq(ds, 1, Len(ds) - 1)) * 10 + DigitVal(ds[Len(ds)])

\* kw in s.lower() for a keyword of letters: some word of s carries it
HasSubstring(s, kw) ==
  \E n \in 1..Len(s) :
    /\ IsWord(s[n])
    /\ WordLen(s[n]) >= 1
    /\ (LowerAtom(s[n]) = kw \/ <<LowerAtom(s[n]), kw>> \in ProperSubstrings)

\* d.get(key): None for a missing key
Get(item, key) == IF key \in DOMAIN item THEN item[key] ELSE NoneVal

\* a list element that is not a dict
NonDictItem == [non_dict |-> <<"x">>]

IsDict(item) == "non_dict" \notin DOMAIN item

\* a or b or c ... over a list of operands
RECURSIVE PyOrAll(_)
PyOrAll(vs) == IF Len(vs) = 1 THEN vs[1] ELSE PyOr(vs[1], PyOrAll(Tail(vs)))

GetAny(item, keys) == PyOrAll([n \in 1..Len(keys) |-> Get(item, keys[n])])

\* if v: v = str(v).strip(); if not v: v = None
StripOrNone(v) ==
  IF Truthy(v) THEN (IF Strip(v) = <<>> THEN NoneVal ELSE Strip(v)) ELSE v

\* re.sub(r'^(w1|w2|...)[trail]*', '', s, flags=re.IGNORECASE) for alternatives that
\* are whole words of s
StripPrefix(s, words, trail) ==
  IF s # <<>> /\ LowerAtom(s[1]) \in words
  THEN SubSeq(s, 2 + ClassRun(s, 2, trail, FALSE), Len(s))
  ELSE s

\* re.search(r'\b(19|20)\d{2}\b', s): the positions where it matches
YearAt(s, i) ==
  /\ i + 3 <= Len(s)
  /\ \A k \in i..(i + 3) : s[k] \in Digits
  /\ <<s[i], s[i + 1]>> \in {<<"1", "9">>, <<"2", "0">>}
  /\ (i = 1 \/ ~IsWordChar(s[i - 1]))
  /\ (i + 3 = Len(s) \/ ~IsWordChar(s[i + 4]))

SetMin(S) == CHOOSE x \in S : \A y \in S : x <= y

YearSearch(s) ==
  LET at == {i \in 1..Len(s) : YearAt(s, i)}
  IN  IF at = {} THEN NoneVal ELSE SubSeq(s, SetMin(at), SetMin(at) + 3)

\* the shapes of a reply of the extractor to a list prompt: the call or the JSON
\* parsing fails, a bare list, a dict holding the list under the expected key,
\* a dict holding null or a scalar there, a dict holding a list under another
\* key, a dict holding no list
ReplyShapes == {"error", "list", "keyed", "keyed_null", "keyed_scalar", "other_key", "no_list"}

\* Optional[list]: None, and a list
NoneList == [present |-> FALSE, value |-> <<>>]

SomeList(l) == [present |-> TRUE, value |-> l]

\* the reply carries a list for the parser to iterate
HasList(reply) == reply.shape \in {"list", "keyed", "other_key"}

---------------------------------------------------------------------------
(* nlp_parsing_service._parse_experience_section *)

PRESENT_WORDS_EXPERIENCE ==
  {<<"present">>, <<"current">>, <<"now">>, <<"ongoing">>, <<"till", " ", "date">>,
   <<"till", " ", "now">>, <<"till", " ", "present">>}

\* the characters re.sub(r'[^\w\s\.,;:!?\-()\[\]{}\n•\*]', '', ...) keeps
DescriptionPunct ==
  {".", ",", ";", ":", "!", "?", "-", "(", ")", "[", "]", "{", "}", Bullet, "*", "_"}

CleanDescription(s) ==
  SelectSeq(s, LAMBDA a : IsWord(a) \/ a \in Digits \cup Whitespace \cup DescriptionPunct)

\* re.sub(r'\n\s*[•\*\-]\s*', '\n• ', s)
RECURSIVE RewriteBullets(_)
RewriteBullets(s) ==
  IF s = <<>> THEN <<>>
  ELSE LET b == 2 + ClassRun(s, 2, Whitespace, FALSE)
       IN  IF Head(s) = "\n" /\ b <= Len(s) /\ s[b] \in {Bullet, "*", "-"}
           THEN <<"\n", Bullet, " ">>
                \o RewriteBullets(
                     SubSeq(s, b + 1 + ClassRun(s, b + 1, Whitespace, FALSE), Len(s)))
           ELSE <<Head(s)>> \o RewriteBullets(Tail(s))

ExperienceDescription(raw) ==
  IF ~Truthy(raw) THEN NoneVal
  ELSE LET d == Strip(RewriteBullets(_normalize_text(CleanDescription(raw))))
       IN  IF d = <<>> THEN NoneVal ELSE d

ExperienceEndDate_CaseSensitive(raw) ==
  IF ~Truthy(raw) THEN NoneVal
  ELSE IF Strip(raw) \in PRESENT_WORDS_EXPERIENCE THEN NoneVal
  ELSE Strip(raw)

ExperienceEndDate(raw) ==
  IF ~Truthy(raw) THEN NoneVal
  ELSE IF Lower(Strip(raw)) \in PRESENT_WORDS_EXPERIENCE THEN NoneVal
  ELSE Strip(raw)

\* one pass of the loop body up to the test: the fields of the candidate entry
ExperienceFields(item) ==
  [job_title   |-> StripOrNone(GetAny(item, <<"job_title", "title", "position">>)),
   employer    |-> StripOrNone(GetAny(item, <<"employer", "company", "organization">>)),
   location    |-> StripOrNone(GetAny(item, <<"location", "city">>)),
   start_date  |-> StripOrNone(GetAny(item, <<"start_date", "start">>)),
   end_date    |-> ExperienceEndDate(GetAny(item, <<"end_date", "end">>)),
   description |-> ExperienceDescription(
                     GetAny(item, <<"description", "responsibilities", "duties">>))]

\* if job_title or employer
ExperienceKeeps(item) ==
  /\ IsDict(item)
  /\ (Truthy(ExperienceFields(item).job_title) \/ Truthy(ExperienceFields(item).employer))

\* the indexes of the items the loop appends, in order
KeptIndexes(items, Keeps(_)) ==
  SelectSeq([n \in 1..Len(items) |-> n], LAMBDA n : Keeps(items[n]))

ExperienceKept(reply) ==
  IF HasList(reply) THEN KeptIndexes(reply.items, ExperienceKeeps) ELSE <<>>

\* the function on a non-blank section text, given the extractor's reply
ExperienceFromReply(reply) ==
  LET kept == ExperienceKept(reply)
  IN  IF kept = <<>> THEN NoneList
      ELSE SomeList([k \in 1..Len(kept) |-> ExperienceFields(reply.items[kept[k]])])

---------------------------------------------------------------------------
(* nlp_parsing_service._parse_education_section *)

SCHOOL_PREFIXES == {"university", "college", "school", "institute"}

GARBAGE_DEGREES ==
  {<<"degree">>, <<"qualification">>, <<"program">>, <<"course">>, <<"education">>}

PRESENT_WORDS_EDUCATION ==
  {<<"present">>, <<"current">>, <<"ongoing">>, <<"till", " ", "date">>,
   <<"till", " ", "now">>}

EducationSchoolName(raw) ==
  IF ~Truthy(raw) THEN raw
  ELSE LET name == Strip(StripPrefix(Strip(raw), SCHOOL_PREFIXES, {":"} \cup Whitespace))
       IN  IF name = <<>> \/ ~AtLeastTwoChars(name) THEN NoneVal ELSE name

EducationDegreeGiven(raw) ==
  IF ~Truthy(raw) THEN NoneVal
  ELSE IF Lower(Strip(raw)) \in GARBAGE_DEGREES THEN NoneVal
  ELSE IF Strip(raw) = <<>> THEN NoneVal
  ELSE Strip(raw)

\* the degree after the auto-fill of the Indian school degrees
EducationDegree(given, school_name) ==
  IF ~Truthy(given) /\ Truthy(school_name)
  THEN IF HasSubstring(school_name, "matric") \/ HasSubstring(school_name, "sslc")
       THEN <<"SSLC">>
       ELSE IF \/ Contains(Lower(school_name), <<"higher", " ", "secondary">>)
               \/ Contains(Lower(school_name), <<"hr", ".", "sec">>)
               \/ HasSubstring(school_name, "hsc")
       THEN <<"HSC">>
       ELSE given
  ELSE given

EducationFieldOfStudy(raw, degree) ==
  IF ~Truthy(raw) THEN NoneVal
  ELSE IF Truthy(degree) /\ Contains(Lower(degree), Lower(Strip(raw))) THEN NoneVal
  ELSE IF Strip(raw) = <<>> THEN NoneVal
  ELSE Strip(raw)

EducationStartDate(raw) ==
  IF ~Truthy(raw) THEN <<>>
  ELSE LET year == YearSearch(
                     StripPrefix(Strip(raw), {"from", "start", "since"},
                                 {":"} \cup Whitespace))
       IN  IF year # NoneVal THEN year ELSE <<>>

EducationEndDate(raw) ==
  IF ~Truthy(raw) THEN <<>>
  ELSE IF Lower(Strip(raw)) \in PRESENT_WORDS_EDUCATION THEN <<>>
  ELSE LET year == YearSearch(
                     StripPrefix(Strip(raw),
                                 {"to", "end", "until", "graduated", "completed"},
                                 {":"} \cup Whitespace))
       IN  IF year # NoneVal THEN year ELSE <<>>

EducationText(raw) == IF ~Truthy(raw) THEN <<>> ELSE Strip(raw)

EducationDescription_Unnormalized(raw) == IF ~Truthy(raw) THEN <<>> ELSE Strip(raw)

EducationDescription(raw) == IF ~Truthy(raw) THEN <<>> ELSE Strip(_normalize_text(raw))

\* x if x else None
OrNone(x) == IF Truthy(x) THEN x ELSE NoneVal

\* one pass of the loop body: the candidate entry as EducationEntry(...) stores it
EducationFields(item) ==
  LET school_name ==
        EducationSchoolName(
          GetAny(item, <<"school_name", "institution", "university", "college",
                         "school", "institution_name">>))
      degree ==
        EducationDegree(
          EducationDegreeGiven(
            GetAny(item, <<"degree", "qualification", "program", "course">>)),
          school_name)
  IN  [school_name    |-> OrNone(school_name),
       degree         |-> OrNone(degree),
       field_of_study |-> EducationFieldOfStudy(
                            GetAny(item, <<"field_of_study", "major", "specialization",
                                           "branch">>), degree),
       location       |-> OrNone(EducationText(
                            GetAny(item, <<"location", "city", "address", "city_state",
                                           "location_city", "place",
                                           "city_state_country">>))),
       start_date     |-> OrNone(EducationStartDate(
                            GetAny(item, <<"start_date", "start", "start_year", "from">>))),
       end_date       |-> OrNone(EducationEndDate(
                            GetAny(item, <<"end_date", "end", "graduation_date", "end_year",
                                           "to", "graduated", "completed">>))),
       description    |-> OrNone(EducationDescription(
                            GetAny(item, <<"description", "details", "achievements">>)))]

EducationKeeps_Always(item) == IsDict(item)

\* if school_name or degree
EducationKeeps(item) ==
  /\ IsDict(item)
  /\ (Truthy(EducationFields(item).school_name) \/ Truthy(EducationFields(item).degree))

\* sort_key(entry)
SortYear(date) == IF Truthy(date) /\ AllDigits(date) THEN IntOf(date) ELSE 0

sort_key_StartFirst(entry) == <<SortYear(entry.start_date), SortYear(entry.end_date)>>

sort_key(entry) == <<SortYear(entry.end_date), SortYear(entry.start_date)>>

KeyLess(a, b) == a[1] < b[1] \/ (a[1] = b[1] /\ a[2] < b[2])

\* entries.sort(key=sort_key, reverse=True) on the indexes of the kept items:
\* stable, equal keys keep their order
RECURSIVE InsertDescending(_, _, _)
InsertDescending(sorted, n, items) ==
  IF sorted = <<>> THEN <<n>>
  ELSE IF KeyLess(sort_key(EducationFields(items[Head(sorted)])),
                  sort_key(EducationFields(items[n])))
       THEN <<n>> \o sorted
       ELSE <<Head(sorted)>> \o InsertDescending(Tail(sorted), n, items)

SortDescending_Unsorted(idx, items) == idx

RECURSIVE SortDescending(_, _)
SortDescending(idx, items) ==
  IF idx = <<>> THEN <<>>
  ELSE InsertDescending(SortDescending(SubSeq(idx, 1, Len(idx) - 1), items),
                        idx[Len(idx)], items)

\* the indexes of the items in the returned list, in its order
EducationKept(reply) ==
  IF HasList(reply)
  THEN SortDescending(KeptIndexes(reply.items, EducationKeeps), reply.items)
  ELSE <<>>

EducationFromReply(reply) ==
  LET kept == EducationKept(reply)
  IN  IF kept = <<>> THEN NoneList
      ELSE SomeList([k \in 1..Len(kept) |-> EducationFields(reply.items[kept[k]])])

---------------------------------------------------------------------------
(* certification_extraction_service._normalize_date *)

\* the keys of month_names in the order the dict iterates them
MONTH_NAMES ==
  <<"january", "february", "march", "april", "may", "june", "july", "august",
    "september", "october", "november", "december", "jan", "feb", "mar", "apr",
    "jun", "jul", "aug", "sep", "sept", "oct", "nov", "dec">>

MONTH_NUMBERS ==
  <<<<"0", "1">>, <<"0", "2">>, <<"0", "3">>, <<"0", "4">>, <<"0", "5">>, <<"0", "6">>,
    <<"0", "7">>, <<"0", "8">>, <<"0", "9">>, <<"1", "0">>, <<"1", "1">>, <<"1", "2">>,
    <<"0", "1">>, <<"0", "2">>, <<"0", "3">>, <<"0", "4">>, <<"0", "6">>, <<"0", "7">>,
    <<"0", "8">>, <<"0", "9">>, <<"0", "9">>, <<"1", "0">>, <<"1", "1">>, <<"1", "2">>>>

\* str.zfill(2)
Zfill2(ds) == IF Len(ds) = 1 THEN <<"0">> \o ds ELSE ds

MonthInRange(ds) == IntOf(ds) >= 1 /\ IntOf(ds) <= 12

MonthSlashYear(month, year) == Zfill2(month) \o <<"/">> \o year

\* re.sub(r'^(issued|completed|earned|obtained|received|date[:]?)\s*:?\s*', '', s)
StripDatePrefix(s) ==
  IF s # <<>> /\ LowerAtom(s[1]) \in
                   {"issued", "completed", "earned", "obtained", "received", "date"}
  THEN LET p1 == IF LowerAtom(s[1]) = "date" /\ Len(s) >= 2 /\ s[2] = ":" THEN 3 ELSE 2
           p2 == p1 + ClassRun(s, p1, Whitespace, FALSE)
           p3 == IF p2 <= Len(s) /\ s[p2] = ":" THEN p2 + 1 ELSE p2
           p4 == p3 + ClassRun(s, p3, Whitespace, FALSE)
       IN  SubSeq(s, p4, Len(s))
  ELSE s

\* s is digits, one of / and -, digits, with the given numbers of digits
IsNumSepNum(s, left, right) ==
  /\ Len(s) = left + 1 + right
  /\ AllDigits(SubSeq(s, 1, left))
  /\ s[left + 1] \in {"/", "-"}
  /\ AllDigits(SubSeq(s, left + 2, Len(s)))

\* re.match(r'^(\d{1,2})[/-](\d{4})$', s): the number of month digits, 0 without a match
MonthYearDigits(s) ==
  IF IsNumSepNum(s, 1, 4) THEN 1 ELSE IF IsNumSepNum(s, 2, 4) THEN 2 ELSE 0

\* re.match(r'^(\d{4})[-/](\d{1,2})$', s): the number of month digits
YearMonthDigits(s) ==
  IF IsNumSepNum(s, 4, 1) THEN 1 ELSE IF IsNumSepNum(s, 4, 2) THEN 2 ELSE 0

\* re.match(r'^\d{1,2}[/-](\d{1,2})[/-](\d{4})$', s): the (month, year) groups
DayMonthYear(s) ==
  LET splits == {<<d, m>> \in {1, 2} \X {1, 2} :
                   /\ Len(s) = d + 1 + m + 1 + 4
                   /\ AllDigits(SubSeq(s, 1, d))
                   /\ s[d + 1] \in {"/", "-"}
                   /\ AllDigits(SubSeq(s, d + 2, d + 1 + m))
                   /\ s[d + m + 2] \in {"/", "-"}
                   /\ AllDigits(SubSeq(s, d + m + 3, Len(s)))}
  IN  IF splits = {} THEN NoneVal
      ELSE LET dm == CHOOSE x \in splits : TRUE
           IN  <<SubSeq(s, dm[1] + 2, dm[1] + 1 + dm[2]), SubSeq(s, dm[1] + dm[2] + 3, Len(s))>>

\* re.search(r'(\d{1,2})[/-](\d{4})', s): the (month, year) groups of the leftmost match
EmbeddedAt(s, i, m) ==
  /\ i + m + 4 <= Len(s)
  /\ AllDigits(SubSeq(s, i, i + m - 1))
  /\ s[i + m] \in {"/", "-"}
  /\ AllDigits(SubSeq(s, i + m + 1, i + m + 4))

EmbeddedMonthYear(s) ==
  LET at == {i \in 1..Len(s) : EmbeddedAt(s, i, 2) \/ EmbeddedAt(s, i, 1)}
  IN  IF at = {} THEN NoneVal
      ELSE LET i == SetMin(at)
               m == IF EmbeddedAt(s, i, 2) THEN 2 ELSE 1
           IN  <<SubSeq(s, i, i + m - 1), SubSeq(s, i + m + 1, i + m + 4)>>

\* the first month name, in the order of the dict, that the string carries
MonthNamesIn(s) == {n \in 1..Len(MONTH_NAMES) : HasSubstring(s, MONTH_NAMES[n])}

_normalize_date_YearFirst(date_str) ==
  IF ~Truthy(date_str) THEN NoneVal
  ELSE
    LET s == Strip(StripDatePrefix(Strip(date_str)))
        my == MonthYearDigits(s)
        ym == YearMonthDigits(s)
        dmy == DayMonthYear(s)
    IN  IF my > 0 /\ MonthInRange(SubSeq(s, 1, my))
        THEN MonthSlashYear(SubSeq(s, 1, my), SubSeq(s, my + 2, Len(s)))
        ELSE IF ym > 0 /\ MonthInRange(SubSeq(s, 6, Len(s)))
        THEN MonthSlashYear(SubSeq(s, 6, Len(s)), SubSeq(s, 1, 4))
        ELSE IF MonthNamesIn(s) # {} /\ YearSearch(s) # NoneVal
        THEN MONTH_NUMBERS[SetMin(MonthNamesIn(s))] \o <<"/">> \o YearSearch(s)
        ELSE IF YearSearch(s) # NoneVal
        THEN <<"0", "1", "/">> \o YearSearch(s)
        ELSE IF dmy # NoneVal /\ MonthInRange(dmy[1])
        THEN MonthSlashYear(dmy[1], dmy[2])
        ELSE NoneVal

_normalize_date(date_str) ==
  IF ~Truthy(date_str) THEN NoneVal
  ELSE
    LET s == Strip(StripDatePrefix(Strip(date_str)))
        my == MonthYearDigits(s)
        ym == YearMonthDigits(s)
        dmy == DayMonthYear(s)
        emb == EmbeddedMonthYear(s)
    IN  IF my > 0 /\ MonthInRange(SubSeq(s, 1, my))
        THEN MonthSlashYear(SubSeq(s, 1, my), SubSeq(s, my + 2, Len(s)))
        ELSE IF ym > 0 /\ MonthInRange(SubSeq(s, 6, Len(s)))
        THEN MonthSlashYear(SubSeq(s, 6, Len(s)), SubSeq(s, 1, 4))
        ELSE IF MonthNamesIn(s) # {} /\ YearSearch(s) # NoneVal
        THEN MONTH_NUMBERS[SetMin(MonthNamesIn(s))] \o <<"/">> \o YearSearch(s)
        ELSE IF dmy # NoneVal /\ MonthInRange(dmy[1])
        THEN MonthSlashYear(dmy[1], dmy[2])
        ELSE IF YearSearch(s) # NoneVal
        THEN <<"0", "1", "/">> \o YearSearch(s)
        ELSE IF emb # NoneVal /\ MonthInRange(emb[1])
        THEN MonthSlashYear(emb[1], emb[2])
        ELSE NoneVal

---------------------------------------------------------------------------
(* certification_extraction_service.extract_certifications *)

\* s.split(sep) for a one-character sep
RECURSIVE SplitOn(_, _, _)
SplitOn(s, sep, cur) ==
  IF s = <<>> THEN <<cur>>
  ELSE IF Head(s) = sep THEN <<cur>> \o SplitOn(Tail(s), sep, <<>>)
  ELSE SplitOn(Tail(s), sep, Append(cur, Head(s)))

\* [A-Z0-9](?:[A-Z0-9-]{0,61}[A-Z0-9])? with re.IGNORECASE
IsHostLabel(l) ==
  /\ l # <<>>
  /\ \A n \in 1..Len(l) : IsWord(l[n]) \/ l[n] \in Digits \/ l[n] = "-"
  /\ l[1] # "-"
  /\ l[Len(l)] # "-"
  /\ CharLen(l) <= 63

\* [A-Z]{2,6}
IsTopLevel(l) == Len(l) = 1 /\ IsWord(l[1]) /\ WordLen(l[1]) >= 2 /\ WordLen(l[1]) <= 6

\* (?:label\.)+[A-Z]{2,6}\.?
IsDomainHost(h) ==
  LET parts == SplitOn(h, ".", <<>>)
      named == IF parts[Len(parts)] = <<>> THEN SubSeq(parts, 1, Len(parts) - 1) ELSE parts
  IN  /\ Len(named) >= 2
      /\ \A n \in 1..(Len(named) - 1) : IsHostLabel(named[n])
      /\ IsTopLevel(named[Len(named)])

\* \d{1,3}\.\d{1,3}\.\d{1,3}\.\d{1,3}
IsIpHost(h) ==
  LET parts == SplitOn(h, ".", <<>>)
  IN  /\ Len(parts) = 4
      /\ \A n \in 1..4 : AllDigits(parts[n]) /\ Len(parts[n]) <= 3

IsHost(h) == IsDomainHost(h) \/ Lower(h) = <<"localhost">> \/ IsIpHost(h)

\* (?::\d+)?(?:/?|[/?]\S+)$ on the rest of the string after the host
IsPortAndPath(r) ==
  LET digits == IF r # <<>> /\ Head(r) = ":" THEN ClassRun(r, 2, Digits, FALSE) ELSE 0
      path   == IF digits > 0 THEN SubSeq(r, digits + 2, Len(r)) ELSE r
  IN  \/ path = <<>>
      \/ path = <<"/">>
      \/ /\ Len(path) >= 2
         /\ Head(path) \in {"/", "?"}
         /\ \A n \in 2..Len(path) : path[n] \notin Whitespace

\* url_pattern.match(url)
UrlPatternMatches(url) ==
  /\ Len(url) >= 5
  /\ LowerAtom(url[1]) \in {"http", "https"}
  /\ SubSeq(url, 2, 4) = <<":", "/", "/">>
  /\ LET host == ClassRun(url, 5, Digits \cup {"-", "."}, TRUE)
     IN  /\ IsHost(SubSeq(url, 5, 4 + host))
         /\ IsPortAndPath(SubSeq(url, 5 + host, Len(url)))

\* url.startswith(('http://', 'https://'))
HasHttpScheme(url) ==
  Len(url) >= 4 /\ url[1] \in {"http", "https"} /\ SubSeq(url, 2, 4) = <<":", "/", "/">>

CredentialUrl(raw) ==
  IF ~Truthy(raw) THEN NoneVal
  ELSE LET given    == Strip(raw)
           prefixed == <<"https", ":", "/", "/">> \o given
           url == IF UrlPatternMatches(given) THEN given
                  ELSE IF ~HasHttpScheme(given) /\ UrlPatternMatches(prefixed) THEN prefixed
                  ELSE NoneVal
       IN  IF url # NoneVal /\ CharLen(url) < 10 THEN NoneVal ELSE url

\* strip, remove the prefix, strip, None when shorter than minLen characters
CleanedField(raw, prefixed(_), minLen) ==
  IF ~Truthy(raw) THEN NoneVal
  ELSE LET v == Strip(prefixed(Strip(raw)))
       IN  IF v = <<>> \/ (minLen = 2 /\ ~AtLeastTwoChars(v)) THEN NoneVal ELSE v

\* re.sub(r'^(certificate|certification|cert):\s*', '', s, flags=re.IGNORECASE)
StripCertificatePrefix(s) ==
  IF Len(s) >= 2 /\ LowerAtom(s[1]) \in {"certificate", "certification", "cert"} /\ s[2] = ":"
  THEN SubSeq(s, 3 + ClassRun(s, 3, Whitespace, FALSE), Len(s))
  ELSE s

\* re.sub(r'^(issued by|from|by):\s*', '', s, flags=re.IGNORECASE)
StripIssuerPrefix(s) ==
  IF Len(s) >= 4 /\ Lower(SubSeq(s, 1, 4)) = <<"issued", " ", "by", ":">>
  THEN SubSeq(s, 5 + ClassRun(s, 5, Whitespace, FALSE), Len(s))
  ELSE IF Len(s) >= 2 /\ LowerAtom(s[1]) \in {"from", "by"} /\ s[2] = ":"
  THEN SubSeq(s, 3 + ClassRun(s, 3, Whitespace, FALSE), Len(s))
  ELSE s

\* re.sub(r'^(id|credential|license|certificate|number)[:\s#]*', '', s, flags=re.IGNORECASE)
StripCredentialPrefix(s) ==
  StripPrefix(s, {"id", "credential", "license", "certificate", "number"},
              {":", "#"} \cup Whitespace)

CertificateName(item) ==
  CleanedField(GetAny(item, <<"certificate_name", "name", "certification", "title",
                              "certificate">>),
               StripCertificatePrefix, 2)

\* the CertificateEntry the loop body builds
CertificateFields(item) ==
  [certificate_name     |-> CertificateName(item),
   issuing_organization |-> CleanedField(
                              GetAny(item, <<"issuing_organization", "organization",
                                             "issuer", "platform", "issued_by",
                                             "provider">>),
                              StripIssuerPrefix, 2),
   date_of_completion   |-> LET raw == GetAny(item, <<"date_of_completion", "date",
                                                     "completion_date", "issue_date",
                                                     "issued_date", "earned_date",
                                                     "completed">>)
                            IN  IF Truthy(raw) THEN _normalize_date(Strip(raw)) ELSE NoneVal,
   credential_id        |-> CleanedField(
                              GetAny(item, <<"credential_id", "credential", "id",
                                             "license_id", "certificate_id",
                                             "credential_number", "license_number">>),
                              StripCredentialPrefix, 1),
   credential_url       |-> CredentialUrl(
                              GetAny(item, <<"credential_url", "url", "link",
                                             "verification_url", "certificate_url",
                                             "verification_link">>))]

\* if not certificate_name: continue
CertificateKeeps(item) == IsDict(item) /\ Truthy(CertificateName(item))

CertificatesKept(reply) ==
  IF HasList(reply) THEN KeptIndexes(reply.items, CertificateKeeps) ELSE <<>>

CertificatesFromReply(reply) ==
  LET kept == CertificatesKept(reply)
  IN  IF kept = <<>> THEN NoneList
      ELSE SomeList([k \in 1..Len(kept) |-> CertificateFields(reply.items[kept[k]])])

---------------------------------------------------------------------------
(* nlp_parsing_service: the skills, projects, achievements and summary parsers *)

\* Optional[Skills]: None, and a Skills object
EmptySkills == [technical |-> <<>>, soft |-> <<>>, tools |-> <<>>, languages |-> <<>>]

NoneSkills == [present |-> FALSE, value |-> EmptySkills]

\* the replies to the skills prompt: the call or the JSON parsing fails, a JSON
\* list, a dict with a list of strings per category it carries, a dict
\* carrying null for a category
SkillsReplyShapes == {"error", "list", "dict", "dict_null"}

\* _parse_skills_section on a non-blank section text: data.get(category, [])
SkillsFromReply(reply) ==
  IF reply.shape # "dict" THEN NoneSkills
  ELSE [present |-> TRUE,
        value   |-> [c \in DOMAIN EmptySkills |->
                       IF c \in DOMAIN reply.data THEN reply.data[c] ELSE <<>>]]

ProjectDescription(item) ==
  LET description == IF "description" \in DOMAIN item THEN item.description ELSE <<>>
  IN  IF Truthy(description) /\ Truthy(_normalize_text(description))
      THEN _normalize_text(description)
      ELSE NoneVal

ProjectFields(item) ==
  [project_name |-> Get(item, "project_name"),
   description  |-> ProjectDescription(item),
   technologies |-> IF "technologies" \in DOMAIN item THEN item.technologies ELSE <<>>,
   link         |-> Get(item, "link")]

\* _parse_projects_section on a non-blank section text: a bare list only, every
\* item appended, an item that is no dict raising inside the try
ProjectsFromReply(reply) ==
  IF reply.shape # "list" THEN NoneList
  ELSE IF \E n \in 1..Len(reply.items) : ~IsDict(reply.items[n]) THEN NoneList
  ELSE IF reply.items = <<>> THEN NoneList
  ELSE SomeList([n \in 1..Len(reply.items) |-> ProjectFields(reply.items[n])])

\* _parse_achievements_section on a non-blank section text: the reply items are strings
AchievementsFromReply_KeepsEmpty(reply) ==
  IF reply.shape # "list" THEN NoneList
  ELSE LET kept == SelectSeq(reply.items, LAMBDA it : Truthy(it) /\ Strip(it) # <<>>)
       IN  SomeList([n \in 1..Len(kept) |-> _normalize_text(kept[n])])

AchievementsFromReply(reply) ==
  IF reply.shape # "list" THEN NoneList
  ELSE LET kept == SelectSeq(reply.items, LAMBDA it : Truthy(it) /\ Strip(it) # <<>>)
       IN  IF kept = <<>> THEN NoneList
           ELSE SomeList([n \in 1..Len(kept) |-> _normalize_text(kept[n])])

\* _parse_summary_section on a non-blank section text: the values it can return.
\* The reply's summary goes through _normalize_text, _remove_personal_info, the
\* newline collapse and strip(); the redaction is left open between removing
\* nothing and removing everything, and an empty result is None.
SummaryOutcomes(reply) ==
  IF reply.shape # "dict" \/ ~Truthy(reply.summary) THEN {NoneVal}
  ELSE LET kept == Strip(CollapseNewlines(_normalize_text(reply.summary)))
       IN  {NoneVal} \cup (IF kept = <<>> THEN {} ELSE {kept})

---------------------------------------------------------------------------
(* nlp_parsing_service.parse_resume *)

\* if not section_text or not section_text.strip(): return None, before any call
IsBlank(t) == ~Truthy(t) \/ Strip(t) = <<>>

\* not normalized_text or len(normalized_text.strip()) < 10
MinTextLen == 10

TooShort_EmptyOnly(normalized) == ~Truthy(normalized)

TooShort(normalized) == ~Truthy(normalized) \/ CharLen(Strip(normalized)) < MinTextLen

\* any(keyword in normalized_text.lower() for keyword in ...)
GATE_KEYWORDS ==
  [experience     |-> {"experience", "work", "employment"},
   education      |-> {"education", "university", "college", "degree"},
   projects       |-> {"project", "portfolio", "github"},
   certifications |-> {"certificate", "certification", "license", "credential"}]

GateOpen(group, normalized) == \E kw \in GATE_KEYWORDS[group] : HasSubstring(normalized, kw)

\* ResumeData(contacts=Contacts())
EmptyResume ==
  [contacts       |-> EmptyContacts,
   experience     |-> NoneList,
   education      |-> NoneList,
   skills         |-> NoneSkills,
   projects       |-> NoneList,
   certifications |-> NoneList,
   achievements   |-> NoneList,
   summary        |-> NoneVal]

\* one invocation of the extractor: the field-group, and whether the prompt was
\* built from the section body or from the whole document
Call(group, source) == [group |-> group, source |-> source]

SourceOf_NoGate(group, secs, normalized) ==
  IF ~IsBlank(secs[group]) THEN "section"
  ELSE IF group \in DOMAIN GATE_KEYWORDS THEN "document"
  ELSE "none"

\* the text a list group is parsed from: the section body when it is not blank,
\* the whole document when the group's keyword gate opens, else none
SourceOf(group, secs, normalized) ==
  IF ~IsBlank(secs[group]) THEN "section"
  ELSE IF group \in DOMAIN GATE_KEYWORDS /\ GateOpen(group, normalized) THEN "document"
  ELSE "none"

SummarySectionText_AnySection(secs) ==
  IF Strip(secs["summary"]) # <<>> THEN Strip(secs["summary"])
  ELSE Strip(secs["certifications"])

\* summary_section_text = sections.get("summary", "").strip()
SummarySectionText(secs) == Strip(secs["summary"])

---------------------------------------------------------------------------
(* The segmenter applied to bounded documents *)

SegLineVocab ==
  { <<>>,
    <<"EDUCATION">>,
    <<"Experience">>,
    <<"Achievements">>,
    <<"Project", " ", "Experience">>,
    <<"x">>,
    <<" ", "y">> }

RECURSIVE LineSeqs(_)
LineSeqs(n) ==
  IF n = 0 THEN {<<>>}
  ELSE LET shorter == LineSeqs(n - 1)
       IN  shorter \cup {Append(ls, l) : ls \in {s \in shorter : Len(s) = n - 1}, l \in SegLineVocab}

SegTexts == {Join(ls, <<"\n">>) : ls \in LineSeqs(MaxLines)}

SegIdle ==
  /\ text = <<>>
  /\ seg_pc = "idle"
  /\ lines = <<>>
  /\ header_spans = <<>>
  /\ slices = <<>>
  /\ sections = EmptySections

NormIdle ==
  /\ norm_in = <<>>
  /\ norm_prev = <<>>
  /\ norm_out = <<>>
  /\ norm_calls = 0

\* the keys of the dict the prompt of _parse_personal_details asks for
AnswerFields ==
  {"full_name", "desired_job_title", "email", "phone", "location", "country", "city",
   "address", "post_code", "linkedin_url", "github_url", "leetcode_url"}

\* data before the extractor has answered
NoAnswer == [f \in AnswerFields |-> NoneVal]

NoUrls == [github_url |-> NoneVal, leetcode_url |-> NoneVal, linkedin_url |-> NoneVal]

ContactsIdle ==
  /\ c_text = <<>>
  /\ c_pc = "idle"
  /\ email_fallback = NoneVal
  /\ phone_fallback = NoneVal
  /\ urls_fallback = NoUrls
  /\ c_outcome = "none"
  /\ c_data = NoAnswer
  /\ contacts = EmptyContacts

EntriesIdle ==
  /\ e_parser = "none"
  /\ e_pc = "idle"
  /\ e_reply = [shape |-> "error", items |-> <<>>]
  /\ e_result = NoneList
  /\ e_kept = <<>>

FnIdle ==
  /\ f_pc = "idle"
  /\ f_arg = <<>>
  /\ f_ret = <<>>

OrderIdle ==
  /\ p_done = {}
  /\ p_answers = <<>>

ParseIdle ==
  /\ p_text = <<>>
  /\ p_pc = "idle"
  /\ normalized_text = <<>>
  /\ p_sections = EmptySections
  /\ p_calls = <<>>
  /\ p_replies = <<>>
  /\ resume = EmptyResume

InitSeg ==
  /\ NormIdle
  /\ FnIdle
  /\ OrderIdle
  /\ ContactsIdle
  /\ EntriesIdle
  /\ ParseIdle
  /\ text \in SegTexts
  /\ seg_pc = "call"
  /\ lines = <<>>
  /\ header_spans = <<>>
  /\ slices = <<>>
  /\ sections = EmptySections

DetectSections ==
  /\ seg_pc = "call"
  /\ seg_pc' = "returned"
  /\ lines' = SplitLines(text)
  /\ header_spans' = SortedHeaderSpans(lines')
  /\ slices' = SlicesFrom(lines', header_spans')
  /\ sections' = SectionsFrom(lines', header_spans')
  /\ UNCHANGED <<text, normVars, fnVars, orderVars, contactVars, entryVars, parseVars>>

NextSeg == DetectSections

SpecSeg == InitSeg /\ [][NextSeg]_vars

---------------------------------------------------------------------------
(* Properties of the segmenter *)

Returned == seg_pc = "returned"

LineIdx == 0..(Len(lines) - 1)

\* the sections whose heading test each line of the vocabulary passes
KeysOfVocabLine ==
  [l \in SegLineVocab |->
     IF Lower(Strip(l)) = <<>> THEN {}
     ELSE {key \in SectionKeys : KeyMatches(key, Lower(Strip(l)))}]

\* the sections whose heading test line i passes
KeysOfLine(i) == KeysOfVocabLine[lines[i + 1]]

HeadingLines == {i \in LineIdx : KeysOfLine(i) # {}}

\* C1: for every input text, the empty string and a text without heading
\* included, the returned mapping has exactly the seven section keys and maps
\* each of them to a string.
C1_Totality ==
  Returned =>
    /\ DOMAIN sections = SectionKeys
    /\ \A key \in SectionKeys :
         /\ sections[key] # NoneVal
         /\ DOMAIN sections[key] = 1..Len(sections[key])

C1_Witness == Returned /\ text = <<>> /\ header_spans = <<>>

\* the line indices a header's slice lines[start:stop] takes
SliceIdx(s) == {k \in LineIdx : s.start <= k /\ k < s.stop}

\* C2: the slices taken for the recorded headers are pairwise disjoint sets of
\* line indices, and no recorded heading line lies in any slice.
C2_Disjointness ==
  Returned =>
    /\ \A a, b \in 1..Len(slices) :
         a # b => SliceIdx(slices[a]) \cap SliceIdx(slices[b]) = {}
    /\ \A a, b \in 1..Len(slices) : slices[b].line \notin SliceIdx(slices[a])

C2_Witness ==
  /\ Returned
  /\ \E a, b \in 1..Len(slices) :
       /\ slices[a].key # slices[b].key
       /\ SliceIdx(slices[a]) # {}
       /\ SliceIdx(slices[b]) # {}

\* the first key, in SECTION_HEADERS order, whose heading test line i passes
FirstKeyOfLine(i) ==
  SectionOrder[CHOOSE n \in 1..Len(SectionOrder) :
                 /\ SectionOrder[n] \in KeysOfLine(i)
                 /\ \A m \in 1..(n - 1) : SectionOrder[m] \notin KeysOfLine(i)]

\* the line index of the next heading line after line i, or len(lines)
NextHeading(i) ==
  IF \E j \in HeadingLines : j > i
  THEN CHOOSE j \in HeadingLines : j > i /\ \A h \in HeadingLines : h > i => j <= h
  ELSE Len(lines)

\* C3: a line passing the heading test of two or more sections is recorded
\* for the first of them in table order only, and the lines up to the next
\* heading line go into that section's slice and into no other.
C3_FirstSectionGoverns ==
  Returned =>
    \A i \in HeadingLines :
      Cardinality(KeysOfLine(i)) >= 2 =>
        /\ \A n \in 1..Len(slices) : slices[n].line = i => slices[n].key = FirstKeyOfLine(i)
        /\ \E n \in 1..Len(slices) :
             /\ slices[n].line = i
             /\ slices[n].key = FirstKeyOfLine(i)
             /\ SliceIdx(slices[n]) = {k \in LineIdx : i < k /\ k < NextHeading(i)}

\* the trimmed, lower-cased synonyms of one section
SynonymSet(key) == {V_NORM[key][n] : n \in 1..Len(V_NORM[key])}

\* C4: no synonym, trimmed and lower-cased, belongs to two sections.
C4_SynonymsDisjoint ==
  \A k1, k2 \in DOMAIN sections : k1 # k2 => SynonymSet(k1) \cap SynonymSet(k2) = {}

\* the span of the heading at line i: the lines strictly between it and the
\* next heading line (or the end of the document), trimmed
SpanOf(i) == Strip(Join(PySlice(lines, i + 1, NextHeading(i)), <<"\n">>))

\* the heading lines of one section, in document order
RECURSIVE HeadingsOfKey(_, _)
HeadingsOfKey(key, i) ==
  IF i >= Len(lines) THEN <<>>
  ELSE IF key \in KeysOfLine(i) THEN <<i>> \o HeadingsOfKey(key, i + 1)
  ELSE HeadingsOfKey(key, i + 1)

\* the spans of one section in document order, joined by one blank line
JoinedSpans(key) ==
  LET hs == HeadingsOfKey(key, 0)
  IN  Join([n \in 1..Len(hs) |-> SpanOf(hs[n])], <<"\n", "\n">>)

EveryHeadingHasOneKey == \A i \in HeadingLines : Cardinality(KeysOfLine(i)) = 1

EveryHeadingHasContent == \A i \in HeadingLines : SpanOf(i) # <<>>

\* C5: when every heading line matches exactly one section and has a
\* non-blank content line before the next heading, each section's body is its
\* spans in document order joined by exactly one blank line; a section without
\* heading is empty and the lines before the first heading are in no body.
C5_SpanConstruction ==
  (Returned /\ EveryHeadingHasOneKey /\ EveryHeadingHasContent) =>
    \A key \in SectionKeys : sections[key] = JoinedSpans(key)

C5_Witness ==
  /\ Returned /\ EveryHeadingHasOneKey /\ EveryHeadingHasContent
  /\ Len(HeadingsOfKey("experience", 0)) = 2
  /\ sections["experience"] = <<"x", "\n", "\n", "x">>

\* the non-empty spans of one section in document order, joined by one blank line
JoinedNonEmptySpans(key) ==
  LET hs == HeadingsOfKey(key, 0)
      ne == SelectSeq([n \in 1..Len(hs) |-> SpanOf(hs[n])], LAMBDA b : b # <<>>)
  IN  Join(ne, <<"\n", "\n">>)

\* C6: a heading without content before the next heading (or the end of the
\* document) adds nothing to its section's body, neither text nor separator.
C6_EmptySpanAddsNothing ==
  (Returned /\ EveryHeadingHasOneKey) =>
    \A key \in SectionKeys : sections[key] = JoinedNonEmptySpans(key)

---------------------------------------------------------------------------
(* The normalizer applied repeatedly to bounded raw texts *)

NormAlphabet == {"\r", "\n", " ", "\t", "\f", "|", "0", "a"}

RECURSIVE TextsUpTo(_, _)
TextsUpTo(alphabet, n) ==
  IF n = 0 THEN {<<>>}
  ELSE LET shorter == TextsUpTo(alphabet, n - 1)
       IN  shorter \cup {Append(t, a) : t \in {u \in shorter : Len(u) = n - 1}, a \in alphabet}

InitNorm ==
  /\ SegIdle
  /\ FnIdle
  /\ OrderIdle
  /\ ContactsIdle
  /\ EntriesIdle
  /\ ParseIdle
  /\ norm_in \in TextsUpTo(NormAlphabet, MaxTextLen)
  /\ norm_prev = norm_in
  /\ norm_out = norm_in
  /\ norm_calls = 0

\* one more call, on the value the previous call returned
NormalizeText ==
  /\ norm_calls < MaxNormalizeCalls
  /\ norm_prev' = norm_out
  /\ norm_out' = _normalize_text(norm_out)
  /\ norm_calls' = norm_calls + 1
  /\ UNCHANGED <<norm_in, segVars, contactVars, entryVars, parseVars, fnVars, orderVars>>

NextNorm == NormalizeText

SpecNorm == InitNorm /\ [][NextNorm]_vars

\* C7: the normalizer is idempotent: normalizing a normalized text returns it
\* unchanged.
C7_NormalizeIdempotent == norm_calls >= 2 => norm_out = norm_prev

C7_Witness == norm_calls = 2 /\ norm_prev # norm_in /\ norm_in # <<>> /\ norm_out # <<>>

---------------------------------------------------------------------------
(* _parse_personal_details applied to bounded header texts *)

NameLine == <<"John", " ", "Smith">>

PersonalEmailLine == <<"john", ".", "smith", "@", "gmail", ".", "com">>

WorkEmailLine == <<"HR", "@", "acme", ".", "io">>

PhoneLine ==
  <<"+", "1", " ", "(", "5", "5", "5", ")", " ", "1", "2", "3", "-", "4", "5", "6", "7">>

ShortPhoneLine == <<"5", "5", "5", "-", "1", "2", "3", "-", "4", "5">>

GithubLine == <<"https", ":", "/", "/", "github", ".", "com", "/", "jsmith">>

ContactLineVocab ==
  {NameLine, PersonalEmailLine, WorkEmailLine, PhoneLine, ShortPhoneLine, GithubLine}

RECURSIVE ContactLineSeqs(_)
ContactLineSeqs(n) ==
  IF n = 0 THEN {<<>>}
  ELSE LET shorter == ContactLineSeqs(n - 1)
       IN  shorter \cup
           {Append(ls, l) : ls \in {u \in shorter : Len(u) = n - 1}, l \in ContactLineVocab}

ContactTexts == {Join(ls, <<"\n">>) : ls \in ContactLineSeqs(MaxContactLines)}

\* the dict answers of the extractor
ContactAnswers ==
  [full_name         : {NoneVal, <<"John", " ", "Smith">>,
                        <<"Senior", " ", "Software", " ", "Engineer">>},
   desired_job_title : {NoneVal, <<"S", "/", "W", " ", "Engg">>},
   email             : {NoneVal, <<" ", "Ann", "@", "acme", ".", "io">>},
   phone             : {NoneVal, <<"5", "5", "5", "-", "1", "2", "3", "4">>},
   location          : {NoneVal},
   country           : {NoneVal},
   city              : {NoneVal, <<"Pune">>},
   address           : {NoneVal},
   post_code         : {NoneVal, <<"4", "1", "1", "0", "0", "1">>},
   linkedin_url      : {NoneVal},
   github_url        : {NoneVal, <<"github", ".", "com", "/", "ann">>},
   leetcode_url      : {NoneVal}]

InitContacts ==
  /\ SegIdle
  /\ NormIdle
  /\ FnIdle
  /\ OrderIdle
  /\ EntriesIdle
  /\ ParseIdle
  /\ c_text \in ContactTexts
  /\ c_pc = "call"
  /\ email_fallback = NoneVal
  /\ phone_fallback = NoneVal
  /\ urls_fallback = NoUrls
  /\ c_outcome = "none"
  /\ c_data = NoAnswer
  /\ contacts = EmptyContacts

\* lines 332-334: the regex fallbacks, computed before the extractor is called
RegexFallbacks ==
  /\ c_pc = "call"
  /\ c_pc' = "extractor"
  /\ email_fallback' = _extract_email_fallback(c_text)
  /\ phone_fallback' = _extract_phone_fallback(c_text)
  /\ urls_fallback' = _extract_urls_fallback(c_text)
  /\ UNCHANGED <<c_text, c_outcome, c_data, contacts, segVars, normVars, fnVars, orderVars, entryVars,
                 parseVars>>

\* the extractor call or the parsing of its reply raises ValueError
ExtractorValueError ==
  /\ c_pc = "extractor"
  /\ c_pc' = "returned"
  /\ c_outcome' = "value_error"
  /\ contacts' = ContactsOnValueError(email_fallback, phone_fallback, urls_fallback)
  /\ UNCHANGED <<c_text, email_fallback, phone_fallback, urls_fallback, c_data, segVars,
                 normVars, fnVars, orderVars, entryVars, parseVars>>

\* the reply is JSON the code cannot read as a dict of strings
ExtractorBadShape ==
  /\ c_pc = "extractor"
  /\ c_pc' = "returned"
  /\ c_outcome' = "exception"
  /\ contacts' = ContactsOnException(email_fallback, phone_fallback, urls_fallback)
  /\ UNCHANGED <<c_text, email_fallback, phone_fallback, urls_fallback, c_data, segVars,
                 normVars, fnVars, orderVars, entryVars, parseVars>>

\* the reply is a dict
ExtractorAnswers ==
  /\ c_pc = "extractor"
  /\ \E data \in ContactAnswers :
       /\ c_data' = data
       /\ contacts' = ContactsFromData(data, email_fallback, phone_fallback, urls_fallback)
  /\ c_pc' = "returned"
  /\ c_outcome' = "dict"
  /\ UNCHANGED <<c_text, email_fallback, phone_fallback, urls_fallback, segVars, normVars, fnVars, orderVars,
                 entryVars, parseVars>>

NextContacts ==
  \/ RegexFallbacks
  \/ ExtractorValueError
  \/ ExtractorBadShape
  \/ ExtractorAnswers

SpecContacts == InitContacts /\ [][NextContacts]_vars

\* a header of a two-word name line, an email line and a phone line
HeaderOf(emailLine) == Join(<<NameLine, emailLine, PhoneLine>>, <<"\n">>)

IsClaimedHeader == c_text \in {HeaderOf(PersonalEmailLine), HeaderOf(WorkEmailLine)}

\* the email line of the header, which is the second line
HeaderEmailLine == SplitLines(c_text)[2]

\* the phone line without its spaces, hyphens and parentheses
DigitsAndPlus(s) == SelectSeq(s, LAMBDA a : a \in Digits \cup {"+"})

FallbackReturned == c_pc = "returned" /\ c_outcome = "value_error"

\* C8 as claimed: with the extractor unavailable, the record of such a header
\* carries the lower-cased email, the cleaned phone and the two words of the
\* name line as first_name and last_name.
C8_FallbackWithName ==
  (FallbackReturned /\ IsClaimedHeader) =>
    /\ contacts.email = Lower(HeaderEmailLine)
    /\ contacts.phone = DigitsAndPlus(PhoneLine)
    /\ contacts.first_name = <<"John">>
    /\ contacts.last_name = <<"Smith">>

\* C8 as amended: with the extractor unavailable, the record of such a header
\* carries the lower-cased email and the cleaned phone, and first_name and
\* last_name are absent: the fallback derives no name.
C8_FallbackWithoutName ==
  (FallbackReturned /\ IsClaimedHeader) =>
    /\ contacts.email = Lower(HeaderEmailLine)
    /\ contacts.phone = DigitsAndPlus(PhoneLine)
    /\ contacts.first_name = NoneVal
    /\ contacts.last_name = NoneVal

C8_Witness ==
  /\ FallbackReturned
  /\ c_text = HeaderOf(PersonalEmailLine)
  /\ contacts.email = PersonalEmailLine
  /\ contacts.phone = <<"+", "1", "5", "5", "5", "1", "2", "3", "4", "5", "6", "7">>

---------------------------------------------------------------------------
(* The list parsers applied to bounded replies of the extractor *)

Year2015 == <<"2", "0", "1", "5">>

Year2019 == <<"2", "0", "1", "9">>

Year2021 == <<"2", "0", "2", "1">>

ExperienceComplete ==
  [job_title |-> <<"Dev">>, employer |-> <<"Acme">>, location |-> <<"Pune">>,
   start_date |-> Year2019, end_date |-> <<"Present">>,
   description |-> <<"Built", " ", "x", "@", "\n", "-", " ", "y">>]

ExperienceNoIdentity ==
  [job_title |-> <<>>, employer |-> <<>>, location |-> <<"Pune">>,
   start_date |-> Year2015, description |-> <<"x">>]

ExperienceItems ==
  { ExperienceComplete,
    ExperienceNoIdentity,
    [job_title |-> <<" ">>, end_date |-> Year2021],
    [title |-> <<"Lead">>, company |-> <<" ", "Acme">>],
    [job_title |-> <<>>, position |-> <<>>, employer |-> <<"Acme">>],
    NonDictItem }

EducationComplete ==
  [school_name |-> <<"MIT">>, degree |-> <<"BSc">>, field_of_study |-> <<"bsc">>,
   location |-> <<"Pune">>, start_date |-> Year2015, end_date |-> Year2019,
   description |-> <<"x">>]

EducationNoIdentity ==
  [school_name |-> <<>>, degree |-> <<>>, location |-> <<"Pune">>,
   end_date |-> Year2021, description |-> <<"x">>]

EducationItems ==
  { EducationComplete,
    EducationNoIdentity,
    [school_name |-> <<"University", ":", " ">>, degree |-> <<"Degree">>,
     end_date |-> Year2021],
    [institution |-> <<"Matric", " ", "School">>, end_date |-> <<"Present">>],
    [school |-> <<"College", " ", "X">>, qualification |-> <<"BSc">>,
     end_year |-> <<"to", " ">> \o Year2021],
    [school_name |-> <<"X">>, degree |-> <<" ">>],
    NonDictItem }

CertificateComplete ==
  [certificate_name |-> <<"Certificate", ":", " ", "AWS", " ", "Dev">>,
   issuing_organization |-> <<"Issued", " ", "by", ":", " ", "Amazon">>,
   date_of_completion |-> <<"Mar", " ">> \o Year2021,
   credential_id |-> <<"ID", ":", " ", "#", "7">>,
   credential_url |-> <<"aws", ".", "com", "/", "c">>]

CertificateNoIdentity ==
  [certificate_name |-> <<>>, organization |-> <<"Amazon">>,
   date |-> Year2021 \o <<"-", "0", "5">>,
   url |-> <<"https", ":", "/", "/", "aws", ".", "com">>]

CertificateItems ==
  { CertificateComplete,
    CertificateNoIdentity,
    [certificate_name |-> <<"Cert", ":", " ">>, issuer |-> <<"Amazon">>],
    [name |-> <<"X">>],
    [title |-> <<"AWS">>, date |-> <<"1", "3", "/">> \o Year2021,
     link |-> <<"http", ":", "/", "/", "x">>],
    NonDictItem }

ItemsOf(parser) ==
  CASE parser = "experience" -> ExperienceItems
    [] parser = "education" -> EducationItems
    [] parser = "certifications" -> CertificateItems

RECURSIVE ItemLists(_, _)
ItemLists(items, n) ==
  IF n = 0 THEN {<<>>}
  ELSE LET shorter == ItemLists(items, n - 1)
       IN  shorter \cup {Append(l, it) : l \in {u \in shorter : Len(u) = n - 1}, it \in items}

Replies(parser) ==
  {[shape |-> sh, items |-> l] :
     sh \in {"list", "keyed", "other_key"}, l \in ItemLists(ItemsOf(parser), MaxEntries)}
  \cup {[shape |-> sh, items |-> <<>>] : sh \in ReplyShapes}

ListParsers == {"experience", "education", "certifications"}

InitEntries ==
  /\ SegIdle
  /\ NormIdle
  /\ FnIdle
  /\ OrderIdle
  /\ ContactsIdle
  /\ ParseIdle
  /\ e_parser \in ListParsers
  /\ e_pc = "call"
  /\ e_reply \in Replies(e_parser)
  /\ e_result = NoneList
  /\ e_kept = <<>>

\* _parse_experience_section on a non-blank section text
ParseExperienceSection ==
  /\ e_pc = "call"
  /\ e_parser = "experience"
  /\ e_result' = ExperienceFromReply(e_reply)
  /\ e_kept' = ExperienceKept(e_reply)
  /\ e_pc' = "returned"
  /\ UNCHANGED <<e_parser, e_reply, segVars, normVars, fnVars, orderVars, contactVars, parseVars>>

\* _parse_education_section on a non-blank section text
ParseEducationSection ==
  /\ e_pc = "call"
  /\ e_parser = "education"
  /\ e_result' = EducationFromReply(e_reply)
  /\ e_kept' = EducationKept(e_reply)
  /\ e_pc' = "returned"
  /\ UNCHANGED <<e_parser, e_reply, segVars, normVars, fnVars, orderVars, contactVars, parseVars>>

\* extract_certifications on a non-blank text
ExtractCertifications ==
  /\ e_pc = "call"
  /\ e_parser = "certifications"
  /\ e_result' = CertificatesFromReply(e_reply)
  /\ e_kept' = CertificatesKept(e_reply)
  /\ e_pc' = "returned"
  /\ UNCHANGED <<e_parser, e_reply, segVars, normVars, fnVars, orderVars, contactVars, parseVars>>

NextEntries ==
  \/ ParseExperienceSection
  \/ ParseEducationSection
  \/ ExtractCertifications

SpecEntries == InitEntries /\ [][NextEntries]_vars

\* the keys of a reply item the parser reads an identity field from
IdentityKeys ==
  CASE e_parser = "experience" ->
         {"job_title", "title", "position", "employer", "company", "organization"}
    [] e_parser = "education" ->
         {"school_name", "institution", "university", "college", "school",
          "institution_name", "degree", "qualification", "program", "course"}
    [] e_parser = "certifications" ->
         {"certificate_name", "name", "certification", "title", "certificate"}

\* the identity fields of an item are all missing or empty
IdentityAbsent(item) ==
  IsDict(item) /\ \A key \in IdentityKeys : Get(item, key) \in {NoneVal, <<>>}

\* an output entry carries a non-empty identity field
HasIdentity(entry) ==
  CASE e_parser = "experience" ->
         \/ entry.job_title \notin {NoneVal, <<>>}
         \/ entry.employer \notin {NoneVal, <<>>}
    [] e_parser = "education" ->
         \/ entry.school_name \notin {NoneVal, <<>>}
         \/ entry.degree \notin {NoneVal, <<>>}
    [] e_parser = "certifications" -> entry.certificate_name \notin {NoneVal, <<>>}

\* C10: every entry a list parser returns has a non-empty identity field
\* (job_title or employer; school_name or degree; certificate_name), and a
\* reply item whose identity fields are all missing or empty is the source
\* of no returned entry, whatever its other fields hold.
C10_RequiredFieldDropping ==
  e_pc = "returned" =>
    /\ \A k \in 1..Len(e_result.value) : HasIdentity(e_result.value[k])
    /\ \A n \in 1..Len(e_reply.items) :
         IdentityAbsent(e_reply.items[n]) => \A k \in 1..Len(e_kept) : e_kept[k] # n

\* an education reply of two items: the first has degree "" and school_name ""
\* and a location, an end date and a description; only the second is returned
C10_Witness ==
  /\ e_pc = "returned"
  /\ e_parser = "education"
  /\ Len(e_reply.items) = 2
  /\ IdentityAbsent(e_reply.items[1])
  /\ Get(e_reply.items[1], "school_name") = <<>>
  /\ Get(e_reply.items[1], "degree") = <<>>
  /\ Get(e_reply.items[1], "location") # NoneVal
  /\ e_kept = <<2>>
  /\ e_result.present
  /\ Len(e_result.value) = 1

---------------------------------------------------------------------------
(* _parse_projects_section applied to bounded replies of the extractor *)

ProjectComplete == [project_name |-> <<"x">>, description |-> <<"y">>, link |-> NoneVal]

ProjectNoName == [description |-> <<"y">>, technologies |-> << <<"Python">> >>]

ProjectNullName == [project_name |-> NoneVal, description |-> <<"y">>]

ProjectEmptyName == [project_name |-> <<>>, link |-> <<"x">>]

ProjectItems == {ProjectComplete, ProjectNoName, ProjectNullName, ProjectEmptyName, NonDictItem}

ProjectSectionReplies ==
  {[shape |-> sh, items |-> l] :
     sh \in {"list", "keyed", "other_key"}, l \in ItemLists(ProjectItems, MaxEntries)}
  \cup {[shape |-> sh, items |-> <<>>] : sh \in ReplyShapes}

InitProjects ==
  /\ SegIdle
  /\ NormIdle
  /\ FnIdle
  /\ OrderIdle
  /\ ContactsIdle
  /\ ParseIdle
  /\ e_parser = "projects"
  /\ e_pc = "call"
  /\ e_reply \in ProjectSectionReplies
  /\ e_result = NoneList
  /\ e_kept = <<>>

\* the indexes of the items the loop appends: all of them, or the loop raises
ProjectsKept(reply) ==
  IF ProjectsFromReply(reply).present THEN [n \in 1..Len(reply.items) |-> n] ELSE <<>>

\* _parse_projects_section on a non-blank section text
ParseProjectsSection ==
  /\ e_pc = "call"
  /\ e_parser = "projects"
  /\ e_result' = ProjectsFromReply(e_reply)
  /\ e_kept' = ProjectsKept(e_reply)
  /\ e_pc' = "returned"
  /\ UNCHANGED <<e_parser, e_reply, segVars, normVars, fnVars, orderVars, contactVars, parseVars>>

NextProjects == ParseProjectsSection

SpecProjects == InitProjects /\ [][NextProjects]_vars

\* C11: every ProjectEntry that _parse_projects_section returns has a present,
\* non-empty project_name; a reply item whose project_name is missing or null
\* is the source of no returned entry.
C11_ProjectIdentity ==
  (e_pc = "returned" /\ e_parser = "projects") =>
    /\ \A k \in 1..Len(e_result.value) : e_result.value[k].project_name \notin {NoneVal, <<>>}
    /\ \A n \in 1..Len(e_reply.items) :
         (IsDict(e_reply.items[n]) /\ Get(e_reply.items[n], "project_name") = NoneVal)
           => \A k \in 1..Len(e_kept) : e_kept[k] # n

---------------------------------------------------------------------------
(* The sort of _parse_education_section applied to bounded replies *)

Year2018 == <<"2", "0", "1", "8">>

Year2020 == <<"2", "0", "2", "0">>

Year2024 == <<"2", "0", "2", "4">>

SortItems ==
  { [school_name |-> <<"MIT">>, end_date |-> Year2020],
    [school_name |-> <<"Acme">>, end_date |-> Year2024],
    [school_name |-> <<"MIT">>, start_date |-> Year2015, end_date |-> Year2018],
    [school_name |-> <<"Acme">>, end_date |-> Year2020],
    [degree |-> <<"BSc">>, start_date |-> Year2015, end_date |-> Year2020],
    [school_name |-> <<"Acme">>, start_date |-> Year2019, end_date |-> <<"Present">>],
    [school_name |-> <<"MIT">>, start_date |-> Year2024, end_date |-> NoneVal],
    [school_name |-> <<"Acme">>, end_date |-> <<"soon">>],
    [school_name |-> <<>>, degree |-> <<>>, end_date |-> Year2024] }

SortReplies == {[shape |-> "list", items |-> l] : l \in ItemLists(SortItems, MaxSortEntries)}

InitEducationSort ==
  /\ SegIdle
  /\ NormIdle
  /\ FnIdle
  /\ OrderIdle
  /\ ContactsIdle
  /\ ParseIdle
  /\ e_parser = "education"
  /\ e_pc = "call"
  /\ e_reply \in SortReplies
  /\ e_result = NoneList
  /\ e_kept = <<>>

NextEducationSort == ParseEducationSection

SpecEducationSort == InitEducationSort /\ [][NextEducationSort]_vars

\* the reply items that pass the required-field check, by index
Survivors == {n \in 1..Len(e_reply.items) : EducationKeeps(e_reply.items[n])}

\* the sort key of the k-th returned entry
ReturnedKey(k) == sort_key(e_result.value[k])

\* C12: the education list returned is a permutation of the entries that passed
\* the required-field check, in non-increasing order of (end year or 0, start
\* year or 0), and entries of equal key keep the order of the reply.
C12_EducationSorted ==
  (e_pc = "returned" /\ e_parser = "education") =>
    /\ Len(e_kept) = Cardinality(Survivors)
    /\ {e_kept[k] : k \in 1..Len(e_kept)} = Survivors
    /\ Len(e_result.value) = Len(e_kept)
    /\ \A k \in 1..Len(e_kept) : e_result.value[k] = EducationFields(e_reply.items[e_kept[k]])
    /\ \A k \in 1..(Len(e_kept) - 1) :
         /\ ~KeyLess(ReturnedKey(k), ReturnedKey(k + 1))
         /\ ReturnedKey(k) = ReturnedKey(k + 1) => e_kept[k] < e_kept[k + 1]

\* end years 2020, 2024, 2018 in the reply come out as 2024, 2020, 2018
C12_Witness ==
  /\ e_pc = "returned"
  /\ e_parser = "education"
  /\ Len(e_reply.items) = 3
  /\ e_reply.items[1].end_date = Year2020
  /\ e_reply.items[2].end_date = Year2024
  /\ e_reply.items[3].end_date = Year2018
  /\ e_kept = <<2, 1, 3>>
  /\ e_result.value[1].end_date = Year2024
  /\ e_result.value[2].end_date = Year2020
  /\ e_result.value[3].end_date = Year2018

---------------------------------------------------------------------------
(* parse_resume applied to bounded documents *)

DocLineVocab ==
  { <<"Summary">>, <<"Certifications">>, <<"Experience">>, <<"Education">>, <<"Skills">>,
    <<"Projects">>, <<"Achievements">>, <<"Led", " ", "teams">>, <<"x">>, GithubLine }

RECURSIVE DocLineSeqs(_)
DocLineSeqs(n) ==
  IF n = 0 THEN {<<>>}
  ELSE LET shorter == DocLineSeqs(n - 1)
       IN  shorter \cup
           {Append(ls, l) : ls \in {u \in shorter : Len(u) = n - 1}, l \in DocLineVocab}

DocTexts == {Join(ls, <<"\n">>) : ls \in DocLineSeqs(MaxDocLines)}

\* the replies of the extractor the pipeline is checked against, per prompt
ListReplies(complete, noIdentity) ==
  { [shape |-> "error", items |-> <<>>],
    [shape |-> "list", items |-> <<>>],
    [shape |-> "list", items |-> <<complete>>],
    [shape |-> "list", items |-> <<noIdentity>>] }

\* a text with the digit 0 in it, as the description or the achievement of an
\* item the extractor returns
ZeroText == <<"Led", " ", "1", "0", " ", "teams">>

ZeroReply(item) == [shape |-> "list", items |-> <<item>>]

ExperienceReplies ==
  ListReplies(ExperienceComplete, ExperienceNoIdentity)
    \cup {ZeroReply([job_title |-> <<"Dev">>, description |-> ZeroText])}

EducationReplies ==
  ListReplies(EducationComplete, EducationNoIdentity)
    \cup {ZeroReply([school_name |-> <<"MIT">>, description |-> ZeroText])}

CertificateReplies == ListReplies(CertificateComplete, CertificateNoIdentity)

ProjectReplies ==
  ListReplies([project_name |-> <<"x">>, description |-> <<"y">>, link |-> NoneVal],
              NonDictItem)
    \cup {ZeroReply([project_name |-> <<"x">>, description |-> ZeroText, link |-> NoneVal])}

AchievementReplies == ListReplies(<<"x">>, <<" ">>) \cup {ZeroReply(ZeroText)}

SkillsReplies ==
  { [shape |-> "error", data |-> <<>>],
    [shape |-> "dict_null", data |-> <<>>],
    [shape |-> "dict", data |-> [technical |-> << <<"Python">> >>]] }

SummaryReplies ==
  { [shape |-> "error", summary |-> NoneVal],
    [shape |-> "dict", summary |-> NoneVal],
    [shape |-> "dict", summary |-> <<"Led", " ", "teams">>] }

\* what the extractor did on one call, as the orchestrator's rules see it: the
\* call or its JSON parsing failed ("failed"); the reply is not a non-empty list
\* where a list is required ("no_list"); any other reply ("other"), and for the
\* contacts a reply that is no JSON object ("bad_shape")
ReplyKind(reply) ==
  IF reply.shape = "error" THEN "failed"
  ELSE IF reply.shape = "list" /\ reply.items = <<>> THEN "no_list"
  ELSE "other"

DocContactAnswers ==
  {d \in ContactAnswers :
     /\ d.desired_job_title = NoneVal /\ d.phone = NoneVal /\ d.city = NoneVal
     /\ d.post_code = NoneVal /\ d.github_url = NoneVal
     /\ (d.full_name = NoneVal <=> d.email = NoneVal)
     /\ d.full_name \in {NoneVal, <<"John", " ", "Smith">>}}

InitParse ==
  /\ SegIdle
  /\ NormIdle
  /\ FnIdle
  /\ OrderIdle
  /\ ContactsIdle
  /\ EntriesIdle
  /\ p_text \in DocTexts
  /\ p_pc = "call"
  /\ normalized_text = <<>>
  /\ p_sections = EmptySections
  /\ p_calls = <<>>
  /\ p_replies = <<>>
  /\ resume = EmptyResume

\* lines 1565-1577: normalize, return the empty record for a short text, segment
ParseNormalize ==
  /\ p_pc = "call"
  /\ normalized_text' = _normalize_text(p_text)
  /\ IF TooShort(normalized_text')
     THEN /\ p_pc' = "returned"
          /\ resume' = EmptyResume
          /\ UNCHANGED p_sections
     ELSE /\ p_pc' = "contacts"
          /\ p_sections' = detect_sections(normalized_text')
          /\ UNCHANGED resume
  /\ UNCHANGED <<p_text, p_calls, p_replies, segVars, normVars, fnVars, orderVars, contactVars, entryVars>>

\* lines 1591-1598: _parse_personal_details(normalized_text)
ParseContacts ==
  /\ p_pc = "contacts"
  /\ LET email_fb == _extract_email_fallback(normalized_text)
         phone_fb == _extract_phone_fallback(normalized_text)
         urls_fb  == _extract_urls_fallback(normalized_text)
     IN  \/ /\ resume' = [resume EXCEPT
                            !.contacts = ContactsOnValueError(email_fb, phone_fb, urls_fb)]
            /\ p_replies' = Append(p_replies, "failed")
         \/ /\ resume' = [resume EXCEPT
                            !.contacts = ContactsOnException(email_fb, phone_fb, urls_fb)]
            /\ p_replies' = Append(p_replies, "bad_shape")
         \/ /\ \E data \in DocContactAnswers :
                 resume' = [resume EXCEPT
                              !.contacts = ContactsFromData(data, email_fb, phone_fb, urls_fb)]
            /\ p_replies' = Append(p_replies, "other")
  /\ p_calls' = Append(p_calls, Call("contacts", "document"))
  /\ p_pc' = "experience"
  /\ UNCHANGED <<p_text, normalized_text, p_sections, segVars, normVars, fnVars, orderVars, contactVars,
                 entryVars>>

\* lines 1611-1628: the section body, else the document behind the keyword gate
ParseExperience ==
  /\ p_pc = "experience"
  /\ LET source == SourceOf("experience", p_sections, normalized_text)
     IN  IF source = "none"
         THEN UNCHANGED <<resume, p_calls, p_replies>>
         ELSE /\ \E reply \in ExperienceReplies :
                   /\ resume' = [resume EXCEPT !.experience = ExperienceFromReply(reply)]
                   /\ p_replies' = Append(p_replies, ReplyKind(reply))
              /\ p_calls' = Append(p_calls, Call("experience", source))
  /\ p_pc' = "education"
  /\ UNCHANGED <<p_text, normalized_text, p_sections, segVars, normVars, fnVars, orderVars, contactVars,
                 entryVars>>

\* lines 1630-1654: as experience, and a section body that yields nothing is
\* followed by a parse of the whole document
ParseEducation ==
  /\ p_pc = "education"
  /\ LET source == SourceOf("education", p_sections, normalized_text)
     IN  IF source = "none"
         THEN UNCHANGED <<resume, p_calls, p_replies>>
         ELSE \E first \in EducationReplies, second \in EducationReplies :
                IF source = "section" /\ ~EducationFromReply(first).present
                THEN /\ resume' = [resume EXCEPT !.education = EducationFromReply(second)]
                     /\ p_calls' = p_calls \o <<Call("education", "section"),
                                                Call("education", "document")>>
                     /\ p_replies' = p_replies \o <<ReplyKind(first), ReplyKind(second)>>
                ELSE /\ resume' = [resume EXCEPT !.education = EducationFromReply(first)]
                     /\ p_calls' = Append(p_calls, Call("education", source))
                     /\ p_replies' = Append(p_replies, ReplyKind(first))
  /\ p_pc' = "skills"
  /\ UNCHANGED <<p_text, normalized_text, p_sections, segVars, normVars, fnVars, orderVars, contactVars,
                 entryVars>>

\* lines 1656-1659: the section body only
ParseSkills ==
  /\ p_pc = "skills"
  /\ IF IsBlank(p_sections["skills"])
     THEN UNCHANGED <<resume, p_calls, p_replies>>
     ELSE /\ \E reply \in SkillsReplies :
               /\ resume' = [resume EXCEPT !.skills = SkillsFromReply(reply)]
               /\ p_replies' = Append(p_replies, ReplyKind(reply))
          /\ p_calls' = Append(p_calls, Call("skills", "section"))
  /\ p_pc' = "projects"
  /\ UNCHANGED <<p_text, normalized_text, p_sections, segVars, normVars, fnVars, orderVars, contactVars,
                 entryVars>>

\* lines 1661-1678
ParseProjects ==
  /\ p_pc = "projects"
  /\ LET source == SourceOf("projects", p_sections, normalized_text)
     IN  IF source = "none"
         THEN UNCHANGED <<resume, p_calls, p_replies>>
         ELSE /\ \E reply \in ProjectReplies :
                   /\ resume' = [resume EXCEPT !.projects = ProjectsFromReply(reply)]
                   /\ p_replies' = Append(p_replies, ReplyKind(reply))
              /\ p_calls' = Append(p_calls, Call("projects", source))
  /\ p_pc' = "certifications"
  /\ UNCHANGED <<p_text, normalized_text, p_sections, segVars, normVars, fnVars, orderVars, contactVars,
                 entryVars>>

\* lines 1680-1697
ParseCertifications ==
  /\ p_pc = "certifications"
  /\ LET source == SourceOf("certifications", p_sections, normalized_text)
     IN  IF source = "none"
         THEN UNCHANGED <<resume, p_calls, p_replies>>
         ELSE /\ \E reply \in CertificateReplies :
                   /\ resume' = [resume EXCEPT !.certifications = CertificatesFromReply(reply)]
                   /\ p_replies' = Append(p_replies, ReplyKind(reply))
              /\ p_calls' = Append(p_calls, Call("certifications", source))
  /\ p_pc' = "achievements"
  /\ UNCHANGED <<p_text, normalized_text, p_sections, segVars, normVars, fnVars, orderVars, contactVars,
                 entryVars>>

\* lines 1699-1702: the section body only
ParseAchievements ==
  /\ p_pc = "achievements"
  /\ IF IsBlank(p_sections["achievements"])
     THEN UNCHANGED <<resume, p_calls, p_replies>>
     ELSE /\ \E reply \in AchievementReplies :
               /\ resume' = [resume EXCEPT !.achievements = AchievementsFromReply(reply)]
               /\ p_replies' = Append(p_replies, ReplyKind(reply))
          /\ p_calls' = Append(p_calls, Call("achievements", "section"))
  /\ p_pc' = "summary"
  /\ UNCHANGED <<p_text, normalized_text, p_sections, segVars, normVars, fnVars, orderVars, contactVars,
                 entryVars>>

\* lines 1704-1743: the summary from its section body only, then the return
ParseSummary ==
  /\ p_pc = "summary"
  /\ IF IsBlank(SummarySectionText(p_sections))
     THEN UNCHANGED <<resume, p_calls, p_replies>>
     ELSE /\ \E reply \in SummaryReplies : \E summary \in SummaryOutcomes(reply) :
               /\ resume' = [resume EXCEPT !.summary = summary]
               /\ p_replies' = Append(p_replies, ReplyKind(reply))
          /\ p_calls' = Append(p_calls, Call("summary", "section"))
  /\ p_pc' = "returned"
  /\ UNCHANGED <<p_text, normalized_text, p_sections, segVars, normVars, fnVars, orderVars, contactVars,
                 entryVars>>

NextParse ==
  \/ ParseNormalize
  \/ ParseContacts
  \/ ParseExperience
  \/ ParseEducation
  \/ ParseSkills
  \/ ParseProjects
  \/ ParseCertifications
  \/ ParseAchievements
  \/ ParseSummary

SpecParse == InitParse /\ [][NextParse]_vars

\* the extractor was invoked for the summary
SummaryCalled == \E n \in 1..Len(p_calls) : p_calls[n].group = "summary"

\* C9: when the summary body of detect_sections is empty, parse_resume never
\* invokes the extractor for the summary and returns no summary, whatever
\* the document holds elsewhere and whatever the extractor answers.
C9_NoSummaryFallback ==
  Strip(p_sections["summary"]) = <<>> =>
    /\ ~SummaryCalled
    /\ p_pc = "returned" => resume.summary = NoneVal

\* a text under a Certifications heading: the certificates are extracted from it,
\* the summary is not
C9_Witness ==
  /\ p_pc = "returned"
  /\ p_text = <<"Certifications", "\n", "Led", " ", "teams">>
  /\ p_sections["certifications"] = <<"Led", " ", "teams">>
  /\ p_sections["summary"] = <<>>
  /\ resume.certifications.present
  /\ resume.summary = NoneVal
  /\ p_calls = <<Call("contacts", "document"), Call("certifications", "section")>>

\* the number of invocations of the extractor for a field-group so far
CallsFor(group) == Cardinality({n \in 1..Len(p_calls) : p_calls[n].group = group})

FieldGroups ==
  {"contacts", "experience", "education", "skills", "projects", "certifications",
   "achievements", "summary"}

\* C13: during one parse_resume call the extractor is invoked at most once for
\* each field-group.
C13_AtMostOneCall == \A group \in FieldGroups : CallsFor(group) <= 1

\* C14: when the normalized text is empty or shorter than 10 characters,
\* parse_resume returns the record with every contact field and every
\* field-group absent, and neither the extractor nor the segmenter has run.
C14_TooShortIsEmpty ==
  (p_pc = "returned" /\ CharLen(_normalize_text(p_text)) < 10) =>
    /\ resume = EmptyResume
    /\ \A f \in ContactFields : resume.contacts[f] = NoneVal
    /\ p_calls = <<>>
    /\ p_sections = EmptySections

\* a skills heading and a one-letter body, 8 characters: no section is cut out
C14_Witness ==
  /\ p_pc = "returned"
  /\ p_text = <<"Skills", "\n", "x">>
  /\ detect_sections(p_text)["skills"] = <<"x">>
  /\ p_sections = EmptySections
  /\ p_calls = <<>>
  /\ resume = EmptyResume

ListGroups == {"experience", "education", "projects", "certifications", "achievements"}

\* the locals of parse_resume hold values of the ResumeData field types: a
\* Contacts object, an optional list per list group, an optional Skills; an
\* exception that had left a parser would stand in the local in their place
WellShaped ==
  /\ DOMAIN resume.contacts = ContactFields
  /\ \A g \in ListGroups : DOMAIN resume[g] = {"present", "value"}
  /\ DOMAIN resume.skills.value = DOMAIN EmptySkills

\* C15: whatever the text and whatever the extractor does on each call (error,
\* reply of the wrong shape, items of the wrong type), no exception leaves a
\* parser, and the ResumeData that parse_resume returns carries a Contacts
\* object.
C15_NeverRaises ==
  /\ p_pc # "idle" => WellShaped
  /\ p_pc = "returned" => \A f \in ContactFields : f \in DOMAIN resume.contacts

\* a projects section whose extractor reply was unusable, after a contacts
\* reply that gave nothing either: the record comes back with its contacts
\* object and no projects
C15_Witness ==
  /\ p_pc = "returned"
  /\ p_text = <<"Projects", "\n", "Led", " ", "teams">>
  /\ p_calls = <<Call("contacts", "document"), Call("projects", "section")>>
  /\ ~resume.projects.present
  /\ resume.contacts = EmptyContacts

\* every call of the extractor failed or gave no non-empty list
AllCallsUnusable ==
  \A n \in 1..Len(p_replies) : p_replies[n] \in {"failed", "no_list", "bad_shape"}

\* the contacts the regexes alone give for the normalized text
RegexContacts ==
  FallbackContacts(_extract_email_fallback(normalized_text),
                   _extract_phone_fallback(normalized_text),
                   _extract_urls_fallback(normalized_text))

\* C16: if every extractor call fails or returns no non-empty list, the record
\* returned has experience, education, projects, certifications, skills,
\* achievements and summary absent, and its contacts are the regex-derived
\* email, phone and provider URLs and nothing else.
C16_TotalFailure ==
  (p_pc = "returned" /\ p_calls # <<>> /\ AllCallsUnusable) =>
    /\ \A g \in ListGroups : resume[g] = NoneList
    /\ resume.skills = NoneSkills
    /\ resume.summary = NoneVal
    /\ \A f \in ContactFields : resume.contacts[f] \in {NoneVal, RegexContacts[f]}
    /\ p_replies[1] = "failed" => resume.contacts = RegexContacts

\* a GitHub URL above a line of text: the contacts call fails, the word github
\* opens the projects gate and that call fails too; the URL is kept and no
\* project is derived
C16_Witness ==
  /\ p_pc = "returned"
  /\ p_text = Join(<<GithubLine, <<"Led", " ", "teams">>>>, <<"\n">>)
  /\ p_calls = <<Call("contacts", "document"), Call("projects", "document")>>
  /\ p_replies = <<"failed", "failed">>
  /\ resume.contacts.github_url = GithubLine
  /\ resume.contacts.email = NoneVal
  /\ resume.projects = NoneList

---------------------------------------------------------------------------
(* _parse_personal_details applied to answers that carry doubtful values *)

EmailCandidates ==
  {NoneVal,
   <<" ", "Ann", "@", "acme", ".", "io">>,
   <<"Ann", "@", "acme", ".", "io", " ", "to", " ", "HR">>,
   <<"Ann", "@", "acme">>}

PhoneCandidates ==
  {NoneVal,
   <<"5", "5", "5", "-", "1", "2", "3", "4">>,
   <<"+", "1", " ", "(", "5", "5", "5", ")", " ", "1", "2", "3", "-", "4", "5", "6", "7">>,
   <<"5", "5", "5", ".", "1", "2", "3", ".", "4", "5", "6", "7">>}

PostCodeCandidates ==
  {NoneVal,
   <<"4", "1", "1", "0", "0", "1">>,
   <<"1", "2", "3", "4", "5">>,
   <<"1", "2", "3", "4", "5", "-", "6", "7", "8", "9">>,
   <<" ", "4", "1", "1", "0", "0", "1", " ">>,
   <<"1", "2", "3", "4", "5", "6", "7">>}

FullNameCandidates ==
  {NoneVal,
   <<"John", " ", "Smith">>,
   <<"Senior", " ", "Software", " ", "Engineer">>,
   <<"John", " ", "2">>}

CandidateAnswers ==
  {[NoAnswer EXCEPT !.email = e, !.phone = ph, !.post_code = pc, !.full_name = fn] :
     e \in EmailCandidates, ph \in PhoneCandidates, pc \in PostCodeCandidates,
     fn \in FullNameCandidates}

DottedPhoneLine == <<"5", "5", "5", ".", "1", "2", "3", ".", "4", "5", "6", "7">>

\* a header without contact data, one with an email and a phone, one with a phone,
\* one with a phone written with dots
CandidateTexts == {NameLine, HeaderOf(WorkEmailLine), PhoneLine, DottedPhoneLine}

InitCandidates ==
  /\ SegIdle
  /\ NormIdle
  /\ FnIdle
  /\ OrderIdle
  /\ EntriesIdle
  /\ ParseIdle
  /\ c_text \in CandidateTexts
  /\ c_pc = "call"
  /\ email_fallback = NoneVal
  /\ phone_fallback = NoneVal
  /\ urls_fallback = NoUrls
  /\ c_outcome = "none"
  /\ c_data = NoAnswer
  /\ contacts = EmptyContacts

\* the reply is a dict with such values
ExtractorAnswersCandidate ==
  /\ c_pc = "extractor"
  /\ \E data \in CandidateAnswers :
       /\ c_data' = data
       /\ contacts' = ContactsFromData(data, email_fallback, phone_fallback, urls_fallback)
  /\ c_pc' = "returned"
  /\ c_outcome' = "dict"
  /\ UNCHANGED <<c_text, email_fallback, phone_fallback, urls_fallback, segVars, normVars, fnVars, orderVars,
                 entryVars, parseVars>>

NextCandidates ==
  \/ RegexFallbacks
  \/ ExtractorValueError
  \/ ExtractorBadShape
  \/ ExtractorAnswersCandidate

SpecCandidates == InitCandidates /\ [][NextCandidates]_vars

DictReturned == c_pc = "returned" /\ c_outcome = "dict"

\* s is one address of the grammar of EMAIL_REGEX from its first to its last character
IsAddress(s) == s # <<>> /\ EmailMatchEnd(s, 1) = Len(s)

\* C17: the email validator accepts a candidate only when the whole trimmed
\* candidate is an address and returns that address lower-cased; a candidate that
\* begins with an address and continues with other text is rejected, so an
\* email present in a contact record is an address in full.
C17_EmailWholeMatch ==
  /\ DictReturned =>
       (_validate_email(c_data.email) # NoneVal =>
          /\ IsAddress(Strip(c_data.email))
          /\ _validate_email(c_data.email) = Lower(Strip(c_data.email)))
  /\ c_pc = "returned" => (contacts.email # NoneVal => IsAddress(contacts.email))

\* 10 to 15 digits after an optional single leading "+"
IsPhone(s) ==
  LET body == IF s # <<>> /\ Head(s) = "+" THEN Tail(s) ELSE s
  IN  /\ Len(body) >= 10
      /\ Len(body) <= 15
      /\ \A n \in 1..Len(body) : body[n] \in Digits

\* C18: in every contact record returned by _parse_personal_details, whichever
\* source backs it and however the extractor call ended, the phone is absent or
\* 10 to 15 digits with an optional single leading "+", without space, hyphen,
\* parenthesis or dot; a candidate failing that check is never passed through.
C18_PhoneShape ==
  /\ c_pc \in {"extractor", "returned"} =>
       (phone_fallback = NoneVal \/ IsPhone(phone_fallback))
  /\ c_pc = "returned" => (contacts.phone = NoneVal \/ IsPhone(contacts.phone))
  /\ DictReturned =>
       (Truthy(c_data.phone) /\ ~IsPhone(_clean_phone(c_data.phone)) =>
          contacts.phone = phone_fallback)

\* the extractor's dotted phone is rejected and the regex phone of the text is used
C18_Witness ==
  /\ DictReturned
  /\ c_text = PhoneLine
  /\ c_data.phone = DottedPhoneLine
  /\ phone_fallback = <<"+", "1", "5", "5", "5", "1", "2", "3", "4", "5", "6", "7">>
  /\ contacts.phone = phone_fallback

\* C19: in every contact record returned by _parse_personal_details, post_code
\* is absent or exactly 5 or exactly 6 digits and nothing else; an extractor value
\* with extra characters after the digits, a ZIP+4 suffix or surrounding
\* whitespace becomes absent.
C19_PostCodeShape ==
  c_pc = "returned" =>
    \/ contacts.post_code = NoneVal
    \/ /\ AllDigits(contacts.post_code)
       /\ Len(contacts.post_code) \in {5, 6}

\* C20: a full_name candidate that the name-likelihood filter rejects is not
\* used as a person name: first_name and last_name of the contact record are
\* both absent.
C20_RejectedNameUnused ==
  (DictReturned /\ Truthy(c_data.full_name) /\ ~_is_likely_name(Strip(c_data.full_name))) =>
    /\ contacts.first_name = NoneVal
    /\ contacts.last_name = NoneVal

---------------------------------------------------------------------------
(* _split_name applied to bounded candidates *)

NameAlphabet == {"John", "Ann", "Smith", "-", " ", "\t"}

\* two words side by side would be one word
NoAdjacentWords(t) == \A i \in 1..(Len(t) - 1) : ~(IsWord(t[i]) /\ IsWord(t[i + 1]))

NameCandidates ==
  {NoneVal} \cup {t \in TextsUpTo(NameAlphabet, MaxNameLen) : NoAdjacentWords(t)}

InitSplitName ==
  /\ SegIdle
  /\ NormIdle
  /\ ContactsIdle
  /\ EntriesIdle
  /\ ParseIdle
  /\ OrderIdle
  /\ f_pc = "call"
  /\ f_arg \in NameCandidates
  /\ f_ret = <<>>

SplitName ==
  /\ f_pc = "call"
  /\ f_pc' = "returned"
  /\ f_ret' = _split_name(f_arg)
  /\ UNCHANGED <<f_arg, segVars, normVars, contactVars, entryVars, parseVars, orderVars>>

NextSplitName == SplitName

SpecSplitName == InitSplitName /\ [][NextSplitName]_vars

\* the positions where a whitespace-separated word of t starts, and where one ends
WordStarts(t) ==
  {i \in 1..Len(t) : t[i] \notin Whitespace /\ (i = 1 \/ t[i - 1] \in Whitespace)}

WordEnds(t) ==
  {i \in 1..Len(t) : t[i] \notin Whitespace /\ (i = Len(t) \/ t[i + 1] \in Whitespace)}

\* the k-th smallest member of a set of numbers
Kth(S, k) == CHOOSE x \in S : Cardinality({y \in S : y < x}) = k - 1

WordAt(t, k) == SubSeq(t, Kth(WordStarts(t), k), Kth(WordEnds(t), k))

WordCount(t) == IF t = NoneVal THEN 0 ELSE Cardinality(WordStarts(t))

\* C21: _split_name maps a candidate by its number of whitespace-separated
\* words: none (absent, empty or blank input) gives (absent, absent); one gives
\* (that word, absent); two give (first, second); three or more give (first
\* word, the remaining words joined by single spaces in their original order).
C21_SplitByWordCount ==
  f_pc = "returned" =>
    LET n == WordCount(f_arg)
    IN  /\ n = 0 => f_ret = <<NoneVal, NoneVal>>
        /\ n = 1 => f_ret = <<WordAt(f_arg, 1), NoneVal>>
        /\ n = 2 => f_ret = <<WordAt(f_arg, 1), WordAt(f_arg, 2)>>
        /\ n >= 3 =>
             f_ret = <<WordAt(f_arg, 1),
                       Join([k \in 1..(n - 1) |-> WordAt(f_arg, k + 1)], <<" ">>)>>

C21_Witness ==
  /\ f_pc = "returned"
  /\ f_arg = <<"John", "\t", "Ann", " ", "Smith">>
  /\ f_ret = <<<<"John">>, <<"Ann", " ", "Smith">>>>

---------------------------------------------------------------------------
(* _normalize_date applied to bounded date strings *)

DateNumbers ==
  {<<"3">>, <<"0", "3">>, <<"1", "3">>, <<"2", "0", "2", "3">>, <<"1", "8", "5", "0">>}

DateWords == {<<"March">>, <<"not">>}

DateSeparators == {<<"/">>, <<"-">>, <<" ">>}

\* up to n numbers and words, each two joined by one separator
RECURSIVE DateBodies(_)
DateBodies(n) ==
  IF n = 1 THEN DateNumbers \cup DateWords
  ELSE LET shorter == DateBodies(n - 1)
       IN  shorter \cup
           {b \o sep \o part : b \in {x \in shorter : Len(SelectSeq(x, LAMBDA a :
                                          a \in {"/", "-", " "})) = n - 2},
                               sep \in DateSeparators, part \in DateNumbers \cup DateWords}

DatePrefixes == {<<>>, <<"Issued", ":", " ">>}

DateStrings ==
  {NoneVal, <<>>, <<"not", " ", "a", " ", "date">>,
   <<"1", "5", "/", "0", "3", "/", "2", "0", "2", "3">>}
    \cup {pre \o b : pre \in DatePrefixes, b \in DateBodies(MaxDateParts)}

InitNormalizeDate ==
  /\ SegIdle
  /\ NormIdle
  /\ ContactsIdle
  /\ EntriesIdle
  /\ ParseIdle
  /\ OrderIdle
  /\ f_pc = "call"
  /\ f_arg \in DateStrings
  /\ f_ret = <<>>

NormalizeDate ==
  /\ f_pc = "call"
  /\ f_pc' = "returned"
  /\ f_ret' = _normalize_date(f_arg)
  /\ UNCHANGED <<f_arg, segVars, normVars, contactVars, entryVars, parseVars, orderVars>>

NextNormalizeDate == NormalizeDate

SpecNormalizeDate == InitNormalizeDate /\ [][NextNormalizeDate]_vars

\* what each pattern yields on s, in the order of the code: None when it does
\* not match or its month is out of range
PatternResults(s) ==
  LET my  == MonthYearDigits(s)
      ym  == YearMonthDigits(s)
      dmy == DayMonthYear(s)
      emb == EmbeddedMonthYear(s)
  IN  << IF my > 0 /\ MonthInRange(SubSeq(s, 1, my))
         THEN MonthSlashYear(SubSeq(s, 1, my), SubSeq(s, my + 2, Len(s))) ELSE NoneVal,
         IF ym > 0 /\ MonthInRange(SubSeq(s, 6, Len(s)))
         THEN MonthSlashYear(SubSeq(s, 6, Len(s)), SubSeq(s, 1, 4)) ELSE NoneVal,
         IF MonthNamesIn(s) # {} /\ YearSearch(s) # NoneVal
         THEN MONTH_NUMBERS[SetMin(MonthNamesIn(s))] \o <<"/">> \o YearSearch(s)
         ELSE NoneVal,
         IF dmy # NoneVal /\ MonthInRange(dmy[1])
         THEN MonthSlashYear(dmy[1], dmy[2]) ELSE NoneVal,
         IF YearSearch(s) # NoneVal THEN <<"0", "1", "/">> \o YearSearch(s) ELSE NoneVal,
         IF emb # NoneVal /\ MonthInRange(emb[1])
         THEN MonthSlashYear(emb[1], emb[2]) ELSE NoneVal >>

\* the first result that is not None, None without one
FirstSuccess(rs) ==
  IF \A n \in 1..Len(rs) : rs[n] = NoneVal THEN NoneVal
  ELSE rs[SetMin({n \in 1..Len(rs) : rs[n] # NoneVal})]

\* MM/YYYY with MM from 01 to 12
IsMonthYear(d) ==
  /\ Len(d) = 7
  /\ d[3] = "/"
  /\ \A n \in {1, 2, 4, 5, 6, 7} : d[n] \in Digits
  /\ IntOf(SubSeq(d, 1, 2)) \in 1..12

\* the examples of the specification
DateExamples ==
  << <<<<"March", " ", "2", "0", "2", "3">>, <<"0", "3", "/", "2", "0", "2", "3">>>>,
     <<<<"2", "0", "2", "3", "-", "0", "3">>, <<"0", "3", "/", "2", "0", "2", "3">>>>,
     <<<<"1", "5", "/", "0", "3", "/", "2", "0", "2", "3">>,
       <<"0", "3", "/", "2", "0", "2", "3">>>>,
     <<<<"2", "0", "2", "3">>, <<"0", "1", "/", "2", "0", "2", "3">>>>,
     <<<<"not", " ", "a", " ", "date">>, NoneVal>> >>

\* C22: _normalize_date returns the result of the first pattern, in the order
\* exact MM/YYYY, ISO YYYY-MM, month name plus year, DD/MM/YYYY, bare year
\* (January), embedded MM/YYYY, that matches with a month from 1 to 12; a match
\* with a month out of range is skipped; the result is absent when no pattern
\* succeeds, every other result is MM/YYYY with MM from 01 to 12, and the
\* examples of the specification come out as stated.
C22_DatePrecedence ==
  f_pc = "returned" =>
    /\ f_arg \notin {NoneVal, <<>>} =>
         f_ret = FirstSuccess(PatternResults(Strip(StripDatePrefix(Strip(f_arg)))))
    /\ f_arg \in {NoneVal, <<>>} => f_ret = NoneVal
    /\ f_ret = NoneVal \/ IsMonthYear(f_ret)
    /\ \A n \in 1..Len(DateExamples) : f_arg = DateExamples[n][1] => f_ret = DateExamples[n][2]

\* the exact pattern matches with month 13 and is skipped: the bare year answers
C22_Witness ==
  /\ f_pc = "returned"
  /\ f_arg = <<"Issued", ":", " ", "1", "3", "/", "2", "0", "2", "3">>
  /\ f_ret = <<"0", "1", "/", "2", "0", "2", "3">>

---------------------------------------------------------------------------
(* models.py and routers/resume.py: the education projection of the response *)

EducationEntryFields ==
  {"school_name", "degree", "field_of_study", "location", "start_date", "end_date",
   "description"}

ProjectionKeys ==
  {"institution", "location", "degree", "start_year", "end_year", "description"}

\* BaseModel.model_dump() of an EducationEntry: the dict of its fields
BaseDump(edu) == [f \in EducationEntryFields |-> edu[f]]

EducationEntry_model_dump_KeepsNone(edu) ==
  LET data == BaseDump(edu)
  IN  [institution |-> Get(data, "school_name"),
       location    |-> Get(data, "location"),
       degree      |-> Get(data, "degree"),
       start_year  |-> Get(data, "start_date"),
       end_year    |-> Get(data, "end_date"),
       description |-> Get(data, "description")]

\* models.py 50-61
EducationEntry_model_dump(edu) ==
  LET data == BaseDump(edu)
  IN  [institution |-> PyOr(Get(data, "school_name"), <<>>),
       location    |-> PyOr(Get(data, "location"), <<>>),
       degree      |-> PyOr(Get(data, "degree"), <<>>),
       start_year  |-> PyOr(Get(data, "start_date"), <<>>),
       end_year    |-> PyOr(Get(data, "end_date"), <<>>),
       description |-> PyOr(Get(data, "description"), <<>>)]

\* the dict literal built for an entry that is a dict, raw or already projected
NormalizedDict(edu) ==
  [institution |-> PyOrAll(<<Get(edu, "institution"), Get(edu, "school_name"), <<>>>>),
   location    |-> PyOr(Get(edu, "location"), <<>>),
   degree      |-> PyOr(Get(edu, "degree"), <<>>),
   start_year  |-> PyOrAll(<<Get(edu, "start_year"), Get(edu, "start_date"), <<>>>>),
   end_year    |-> PyOrAll(<<Get(edu, "end_year"), Get(edu, "end_date"), <<>>>>),
   description |-> PyOr(Get(edu, "description"), <<>>)]

\* models.py 136-185 on the education of the record: the base dump holds the
\* entries as dicts of their fields; a non-empty list is rebuilt entry by entry
ParsedResumeResponse_model_dump(education) ==
  LET dumped == IF education.present
                THEN SomeList([k \in 1..Len(education.value) |->
                                 BaseDump(education.value[k])])
                ELSE NoneList
  IN  IF dumped.present /\ dumped.value # <<>>
      THEN SomeList([k \in 1..Len(dumped.value) |-> NormalizedDict(dumped.value[k])])
      ELSE dumped

\* routers/resume.py 25-55 on response_data["data"]["education"]
ensure_education_normalization(education_list) ==
  IF education_list.present /\ education_list.value # <<>>
  THEN SomeList([k \in 1..Len(education_list.value) |->
                   NormalizedDict(education_list.value[k])])
  ELSE education_list

\* routers/resume.py 58-87; as_dicts: the caller passes dicts, not EducationEntry objects
normalize_education(education_list, as_dicts) ==
  IF ~education_list.present \/ education_list.value = <<>> THEN SomeList(<<>>)
  ELSE SomeList([k \in 1..Len(education_list.value) |->
                   IF as_dicts THEN NormalizedDict(BaseDump(education_list.value[k]))
                   ELSE EducationEntry_model_dump(education_list.value[k])])

\* the entries a ResumeData can hold: every field None or a string, one of them
\* also the empty string
DumpEntries ==
  [school_name    : {NoneVal, <<"MIT">>},
   degree         : {NoneVal, <<"BSc">>},
   field_of_study : {NoneVal, <<"Python">>},
   location       : {NoneVal, <<>>, <<"Pune">>},
   start_date     : {NoneVal, <<"2", "0", "1", "8">>},
   end_date       : {NoneVal, <<"2", "0", "2", "0">>},
   description    : {NoneVal, <<"Led", " ", "teams">>}]

RECURSIVE DumpLists(_)
DumpLists(n) ==
  IF n = 0 THEN {<<>>}
  ELSE LET shorter == DumpLists(n - 1)
       IN  shorter \cup
           {Append(l, e) : l \in {x \in shorter : Len(x) = n - 1}, e \in DumpEntries}

InitDump ==
  /\ SegIdle
  /\ NormIdle
  /\ ContactsIdle
  /\ EntriesIdle
  /\ ParseIdle
  /\ OrderIdle
  /\ f_pc = "call"
  /\ f_arg \in {NoneList} \cup {SomeList(l) : l \in DumpLists(MaxDumpEntries)}
  /\ f_ret = NoneList

\* response_obj.model_dump()
ResponseModelDump ==
  /\ f_pc = "call"
  /\ f_pc' = "dumped"
  /\ f_ret' = ParsedResumeResponse_model_dump(f_arg)
  /\ UNCHANGED <<f_arg, segVars, normVars, contactVars, entryVars, parseVars, orderVars>>

\* response_data = ensure_education_normalization(response_data)
EnsureEducationNormalization ==
  /\ f_pc = "dumped"
  /\ f_pc' = "ensured"
  /\ f_ret' = ensure_education_normalization(f_ret)
  /\ UNCHANGED <<f_arg, segVars, normVars, contactVars, entryVars, parseVars, orderVars>>

\* normalize_education(education_list) on the entries or on their dicts
NormalizeEducation ==
  /\ f_pc = "call"
  /\ \E as_dicts \in BOOLEAN :
       /\ f_pc' = (IF as_dicts THEN "normalized_dicts" ELSE "normalized")
       /\ f_ret' = normalize_education(f_arg, as_dicts)
  /\ UNCHANGED <<f_arg, segVars, normVars, contactVars, entryVars, parseVars, orderVars>>

NextDump ==
  \/ ResponseModelDump
  \/ EnsureEducationNormalization
  \/ NormalizeEducation

SpecDump == InitDump /\ [][NextDump]_vars

\* None rendered as the empty string
OrEmpty(v) == IF v = NoneVal THEN <<>> ELSE v

Projected == f_pc \in {"dumped", "ensured", "normalized", "normalized_dicts"}

\* the projection has one dict per entry, with exactly the six keys, the three
\* renamed ones included, and the empty string for every absent value
ProjectionOf(education, projection) ==
  /\ Len(projection) = Len(education)
  /\ \A k \in 1..Len(education) :
       /\ DOMAIN projection[k] = ProjectionKeys
       /\ projection[k].institution = OrEmpty(education[k].school_name)
       /\ projection[k].location = OrEmpty(education[k].location)
       /\ projection[k].degree = OrEmpty(education[k].degree)
       /\ projection[k].start_year = OrEmpty(education[k].start_date)
       /\ projection[k].end_year = OrEmpty(education[k].end_date)
       /\ projection[k].description = OrEmpty(education[k].description)

\* C23: the education projection at the response boundary maps every education
\* entry to exactly the keys institution, location, degree, start_year,
\* end_year, description, renaming school_name, start_date and end_date and
\* rendering every absent value as the empty string; building it does not
\* modify the entries or the record they belong to.
C23_EducationProjection ==
  /\ [](Projected /\ f_arg.present => ProjectionOf(f_arg.value, f_ret.value))
  /\ [][f_arg' = f_arg]_vars

C23_Witness ==
  /\ f_pc = "ensured"
  /\ f_arg.present
  /\ Len(f_arg.value) = 1
  /\ f_arg.value[1].school_name = <<"MIT">>
  /\ f_arg.value[1].field_of_study = <<"Python">>
  /\ f_arg.value[1].end_date = NoneVal
  /\ f_ret.value[1].institution = <<"MIT">>
  /\ f_ret.value[1].end_year = <<>>

---------------------------------------------------------------------------
(* parse_resume: which groups fall back to the whole document *)

\* the extractor was invoked for the group on the given source
Invoked(group, source) == \E n \in 1..Len(p_calls) : p_calls[n] = Call(group, source)

\* the segmenter has run and every field-group has been evaluated
AllGroupsEvaluated == p_pc = "returned" /\ ~TooShort(normalized_text)

GatedGroups == {"experience", "education", "projects", "certifications"}

UngatedGroups == {"skills", "achievements", "summary"}

AbsentValue(group) ==
  CASE group = "skills" -> NoneSkills
    [] group = "summary" -> NoneVal
    [] OTHER -> NoneList

\* C24: when a field-group's section body is empty, parse_resume invokes the
\* extractor on the whole normalized document if and only if the group is
\* experience, education, projects or certifications and one of the group's
\* gate keywords occurs in the lower-cased document; for skills, achievements
\* and summary an empty section body means no invocation and an absent field.
C24_DocumentFallbackGate ==
  AllGroupsEvaluated =>
    /\ \A g \in GatedGroups :
         IsBlank(p_sections[g]) =>
           /\ Invoked(g, "document") <=> GateOpen(g, normalized_text)
           /\ ~Invoked(g, "section")
    /\ \A g \in UngatedGroups :
         IsBlank(p_sections[g]) =>
           /\ CallsFor(g) = 0
           /\ resume[g] = AbsentValue(g)

\* a document without headings that names github: the projects gate opens, the
\* other gates stay shut, and nothing is asked for skills
C24_Witness ==
  /\ AllGroupsEvaluated
  /\ p_text = Join(<<<<"Led", " ", "teams">>, GithubLine>>, <<"\n">>)
  /\ p_sections = EmptySections
  /\ Invoked("projects", "document")
  /\ CallsFor("experience") = 0
  /\ CallsFor("education") = 0
  /\ CallsFor("certifications") = 0
  /\ CallsFor("skills") = 0

---------------------------------------------------------------------------
(* _parse_experience_section: order and current-role markers *)

OrderItems ==
  { [job_title |-> <<"Dev">>, end_date |-> <<" ", "Present">>],
    [employer |-> <<"Acme">>, end |-> <<"TILL", " ", "date">>],
    [job_title |-> <<"Lead">>, start_date |-> Year2019, end_date |-> Year2021],
    [title |-> <<"Dev">>, company |-> <<"MIT">>, end_date |-> <<"Now">>],
    [job_title |-> <<"Lead">>, end_date |-> <<"Presently">>],
    [job_title |-> <<>>, employer |-> <<" ">>, end_date |-> <<"Ongoing">>],
    NonDictItem }

OrderReplies ==
  {[shape |-> sh, items |-> l] :
     sh \in {"list", "keyed"}, l \in ItemLists(OrderItems, MaxSortEntries)}

InitExperienceOrder ==
  /\ SegIdle
  /\ NormIdle
  /\ FnIdle
  /\ OrderIdle
  /\ ContactsIdle
  /\ ParseIdle
  /\ e_parser = "experience"
  /\ e_pc = "call"
  /\ e_reply \in OrderReplies
  /\ e_result = NoneList
  /\ e_kept = <<>>

NextExperienceOrder == ParseExperienceSection

SpecExperienceOrder == InitExperienceOrder /\ [][NextExperienceOrder]_vars

\* the markers of a role that has not ended, as the specification lists them
CurrentRoleMarkers ==
  {<<"present">>, <<"current">>, <<"now">>, <<"ongoing">>, <<"till", " ", "date">>,
   <<"till", " ", "now">>, <<"till", " ", "present">>}

\* the end date the extractor gave for an item is such a marker, in any letter case
HasCurrentRoleMarker(item) ==
  LET raw == GetAny(item, <<"end_date", "end">>)
  IN  Truthy(raw) /\ Lower(Strip(raw)) \in CurrentRoleMarkers

\* the reply items that pass the required-field check, by index
ExperienceSurvivors == {n \in 1..Len(e_reply.items) : ExperienceKeeps(e_reply.items[n])}

---------------------------------------------------------------------------
(* parse_resume with the blocks of its field-groups taken in any order *)

\* the blocks of parse_resume in the order of the source, lines 1591-1730
SourceOrder ==
  <<"contacts", "experience", "education", "skills", "projects", "certifications",
    "achievements", "summary">>

\* lines 1591-1598: the contacts block, given how the extractor call ends
ContactsBlock(rec, ntext, secs, answers) ==
  LET email_fb == _extract_email_fallback(ntext)
      phone_fb == _extract_phone_fallback(ntext)
      urls_fb  == _extract_urls_fallback(ntext)
      value ==
        CASE answers.contacts.outcome = "value_error" ->
               ContactsOnValueError(email_fb, phone_fb, urls_fb)
          [] answers.contacts.outcome = "exception" ->
               ContactsOnException(email_fb, phone_fb, urls_fb)
          [] OTHER -> ContactsFromData(answers.contacts.data, email_fb, phone_fb, urls_fb)
  IN  [rec EXCEPT !.contacts = value]

\* lines 1611-1628
ExperienceBlock(rec, ntext, secs, answers) ==
  IF SourceOf("experience", secs, ntext) = "none" THEN rec
  ELSE [rec EXCEPT !.experience = ExperienceFromReply(answers.experience)]

\* lines 1630-1654: the second answer is the one to the parse of the whole
\* document that follows a section body which yielded nothing
EducationBlock(rec, ntext, secs, answers) ==
  LET source == SourceOf("education", secs, ntext)
  IN  IF source = "none" THEN rec
      ELSE IF source = "section" /\ ~EducationFromReply(answers.education).present
      THEN [rec EXCEPT !.education = EducationFromReply(answers.education_document)]
      ELSE [rec EXCEPT !.education = EducationFromReply(answers.education)]

\* lines 1656-1659
SkillsBlock(rec, ntext, secs, answers) ==
  IF IsBlank(secs["skills"]) THEN rec
  ELSE [rec EXCEPT !.skills = SkillsFromReply(answers.skills)]

\* lines 1661-1678
ProjectsBlock(rec, ntext, secs, answers) ==
  IF SourceOf("projects", secs, ntext) = "none" THEN rec
  ELSE [rec EXCEPT !.projects = ProjectsFromReply(answers.projects)]

\* lines 1680-1697
CertificationsBlock(rec, ntext, secs, answers) ==
  IF SourceOf("certifications", secs, ntext) = "none" THEN rec
  ELSE [rec EXCEPT !.certifications = CertificatesFromReply(answers.certifications)]

\* lines 1699-1702
AchievementsBlock(rec, ntext, secs, answers) ==
  IF IsBlank(secs["achievements"]) THEN rec
  ELSE [rec EXCEPT !.achievements = AchievementsFromReply(answers.achievements)]

\* a summary block that looks at the experience parsed so far
SummaryBlock_ReadsExperience(rec, ntext, secs, answers) ==
  IF IsBlank(SummarySectionText(secs)) \/ rec.experience.present THEN rec
  ELSE LET outcomes == SummaryOutcomes(answers.summary) \ {NoneVal}
       IN  [rec EXCEPT !.summary = IF answers.summary_dropped \/ outcomes = {}
                                   THEN NoneVal
                                   ELSE CHOOSE kept \in outcomes : TRUE]

\* lines 1704-1730: the answer is kept unless the call or the reading of its
\* answer failed (summary_dropped)
SummaryBlock(rec, ntext, secs, answers) ==
  IF IsBlank(SummarySectionText(secs)) THEN rec
  ELSE LET outcomes == SummaryOutcomes(answers.summary) \ {NoneVal}
       IN  [rec EXCEPT !.summary = IF answers.summary_dropped \/ outcomes = {}
                                   THEN NoneVal
                                   ELSE CHOOSE kept \in outcomes : TRUE]

\* one block of parse_resume applied to the locals rec
Block(group, rec, ntext, secs, answers) ==
  CASE group = "contacts"       -> ContactsBlock(rec, ntext, secs, answers)
    [] group = "experience"     -> ExperienceBlock(rec, ntext, secs, answers)
    [] group = "education"      -> EducationBlock(rec, ntext, secs, answers)
    [] group = "skills"         -> SkillsBlock(rec, ntext, secs, answers)
    [] group = "projects"       -> ProjectsBlock(rec, ntext, secs, answers)
    [] group = "certifications" -> CertificationsBlock(rec, ntext, secs, answers)
    [] group = "achievements"   -> AchievementsBlock(rec, ntext, secs, answers)
    [] group = "summary"        -> SummaryBlock(rec, ntext, secs, answers)

\* the answers of the extractor, fixed per call before parse_resume starts
CompleteAnswers ==
  [contacts |-> [outcome |-> "dict",
                 data |-> [NoAnswer EXCEPT
                             !.full_name = <<"John", " ", "Smith">>,
                             !.email = <<" ", "Ann", "@", "acme", ".", "io">>]],
   experience |-> [shape |-> "list", items |-> <<ExperienceComplete>>],
   education |-> [shape |-> "list", items |-> <<EducationComplete>>],
   education_document |-> [shape |-> "list", items |-> <<>>],
   skills |-> [shape |-> "dict", data |-> [technical |-> << <<"Python">> >>]],
   projects |-> [shape |-> "list",
                 items |-> <<[project_name |-> <<"x">>, description |-> <<"y">>,
                              link |-> NoneVal]>>],
   certifications |-> [shape |-> "list", items |-> <<CertificateComplete>>],
   achievements |-> [shape |-> "list", items |-> << <<"x">> >>],
   summary |-> [shape |-> "dict", summary |-> <<"Led", " ", "teams">>],
   summary_dropped |-> FALSE]

MixedAnswers ==
  [contacts |-> [outcome |-> "value_error", data |-> NoAnswer],
   experience |-> [shape |-> "list", items |-> <<ExperienceNoIdentity>>],
   education |-> [shape |-> "list", items |-> <<EducationNoIdentity>>],
   education_document |-> [shape |-> "list", items |-> <<EducationComplete>>],
   skills |-> [shape |-> "dict_null", data |-> <<>>],
   projects |-> [shape |-> "list", items |-> <<NonDictItem>>],
   certifications |-> [shape |-> "list", items |-> <<CertificateComplete>>],
   achievements |-> [shape |-> "list", items |-> << <<" ">> >>],
   summary |-> [shape |-> "dict", summary |-> <<"Led", " ", "teams">>],
   summary_dropped |-> TRUE]

AnswerProfiles == {CompleteAnswers, MixedAnswers}

\* the documents: at most MaxSections sections, each a header line and a body
\* line, after an optional line with a URL for the regex fallback of the contacts
HeaderLines ==
  << <<"Summary">>, <<"Experience">>, <<"Education">>, <<"Skills">>, <<"Projects">>,
     <<"Certifications">>, <<"Achievements">> >>

RECURSIVE SectionedLines(_, _)
SectionedLines(k, chosen) ==
  IF k = 0 THEN <<>>
  ELSE SectionedLines(k - 1, chosen)
         \o (IF k \in chosen THEN <<HeaderLines[k], <<"Led", " ", "teams">> >> ELSE <<>>)

AnyOrderTexts ==
  {Join(first \o SectionedLines(Len(HeaderLines), chosen), <<"\n">>) :
     first \in {<<>>, <<GithubLine>>},
     chosen \in {c \in SUBSET (1..Len(HeaderLines)) : Cardinality(c) <= MaxSections}}

InitAnyOrder ==
  /\ SegIdle
  /\ NormIdle
  /\ FnIdle
  /\ ContactsIdle
  /\ EntriesIdle
  /\ p_text \in AnyOrderTexts
  /\ p_pc = "call"
  /\ normalized_text = <<>>
  /\ p_sections = EmptySections
  /\ p_calls = <<>>
  /\ p_replies = <<>>
  /\ resume = EmptyResume
  /\ p_done = {}
  /\ p_answers \in AnswerProfiles

\* lines 1564-1589: normalization, the length check and the segmentation
NormalizeAndSegment ==
  /\ p_pc = "call"
  /\ normalized_text' = _normalize_text(p_text)
  /\ IF TooShort(normalized_text')
     THEN /\ p_pc' = "returned"
          /\ UNCHANGED p_sections
     ELSE /\ p_pc' = "groups"
          /\ p_sections' = detect_sections(normalized_text')
  /\ resume' = EmptyResume
  /\ UNCHANGED <<p_text, p_calls, p_replies, p_done, p_answers, segVars, normVars, fnVars,
                 contactVars, entryVars>>

\* lines 1591-1730: one of the blocks not yet run, whichever it is
EvaluateGroup ==
  /\ p_pc = "groups"
  /\ \E group \in FieldGroups \ p_done :
       /\ resume' = Block(group, resume, normalized_text, p_sections, p_answers)
       /\ p_done' = p_done \cup {group}
  /\ UNCHANGED <<p_text, p_pc, normalized_text, p_sections, p_calls, p_replies, p_answers,
                 segVars, normVars, fnVars, contactVars, entryVars>>

\* lines 1732-1743: the record is built from the locals once every block has run
ReturnRecord ==
  /\ p_pc = "groups"
  /\ p_done = FieldGroups
  /\ p_pc' = "returned"
  /\ UNCHANGED <<p_text, normalized_text, p_sections, p_calls, p_replies, resume, p_done,
                 p_answers, segVars, normVars, fnVars, contactVars, entryVars>>

NextAnyOrder ==
  \/ NormalizeAndSegment
  \/ EvaluateGroup
  \/ ReturnRecord

SpecAnyOrder == InitAnyOrder /\ [][NextAnyOrder]_vars

\* the locals after the blocks of the groups in done have run in the order of
\* the source, starting from the first k blocks
RECURSIVE InSourceOrder(_, _, _, _, _)
InSourceOrder(k, done, ntext, secs, answers) ==
  IF k = 0 THEN EmptyResume
  ELSE LET before == InSourceOrder(k - 1, done, ntext, secs, answers)
       IN  IF SourceOrder[k] \in done
           THEN Block(SourceOrder[k], before, ntext, secs, answers)
           ELSE before

\* C26: whatever the order in which the blocks of the eight field-groups ran,
\* the record returned is the one the order of the source gives for the same
\* normalized text, section mapping and extractor answers
C26_OrderIndependent ==
  p_pc = "returned" =>
    resume = InSourceOrder(Len(SourceOrder), p_done, normalized_text, p_sections, p_answers)

\* every block but the contacts block, which the source runs first, has run:
\* the summary and the experience are in place and the contacts are not
C26_OutOfOrder ==
  /\ p_pc = "groups"
  /\ p_done = FieldGroups \ {"contacts"}
  /\ p_answers = CompleteAnswers
  /\ resume.summary = <<"Led", " ", "teams">>
  /\ resume.experience.present
  /\ resume.contacts = EmptyContacts

\* all eight blocks have run on a document with a summary and an education
\* section: the education comes from the second answer, the summary is dropped
C26_Witness ==
  /\ p_pc = "returned"
  /\ p_done = FieldGroups
  /\ p_answers = MixedAnswers
  /\ ~IsBlank(p_sections["education"])
  /\ ~IsBlank(SummarySectionText(p_sections))
  /\ resume.education.present
  /\ resume.summary = NoneVal

---------------------------------------------------------------------------
(* the URLs of the regex fallback in the record of _parse_personal_details *)

UrlFields == {"github_url", "linkedin_url", "leetcode_url"}

\* the extractor supplied no value for the URL field: its call failed, its
\* answer could not be read, or the field of its answer is null or empty
NoExtractorValue(field) ==
  c_outcome \in {"value_error", "exception"} \/ ~Truthy(c_data[field])

\* C27: a URL the regex fallback found is in the returned record whenever the
\* extractor supplied no value for that field, on every path
C27_FallbackUrlKept ==
  c_pc = "returned" =>
    \A field \in UrlFields :
      (Truthy(urls_fallback[field]) /\ NoExtractorValue(field)) =>
        contacts[field] = urls_fallback[field]

\* the path on which the URL is lost: the answer is a dict with every field
\* null, the text holds a URL and neither an e-mail address nor a phone number
C27_UrlLost ==
  /\ c_pc = "returned"
  /\ c_outcome = "dict"
  /\ c_data = NoAnswer
  /\ Truthy(urls_fallback.github_url)
  /\ email_fallback = NoneVal
  /\ phone_fallback = NoneVal
  /\ contacts = EmptyContacts

\* the failed call keeps the URL: the return at lines 436-442 has no condition
C27_FailedCallKeepsUrl ==
  (c_pc = "returned" /\ c_outcome = "value_error") =>
    \A field \in UrlFields : contacts[field] = urls_fallback[field]

---------------------------------------------------------------------------
(* the list-valued fields of the record of parse_resume *)

\* the extractor was called for the group and the call ended in kind
Answered(group, kind) ==
  \E n \in 1..Len(p_calls) : p_calls[n].group = group /\ p_replies[n] = kind

\* C28: in the record parse_resume returns, the experience, the education, the
\* projects, the certifications and the achievements are each absent or a list
\* with at least one entry
C28_NoEmptyList ==
  p_pc = "returned" =>
    \A g \in ListGroups :
      /\ resume[g].present => Len(resume[g].value) >= 1
      /\ ~resume[g].present => resume[g].value = <<>>

\* the extractor answered the experience prompt with a list whose one entry
\* has neither a job title nor an employer: the entry is dropped and the
\* experience is absent
C28_Witness ==
  /\ p_pc = "returned"
  /\ p_text = <<"Experience", "\n", "Led", " ", "teams">>
  /\ Answered("experience", "other")
  /\ ~resume.experience.present

\* the extractor answered the achievements prompt with the empty list
C28_EmptyReply ==
  /\ p_pc = "returned"
  /\ Answered("achievements", "no_list")
  /\ ~resume.achievements.present

\* a list with an entry that passes validation is stored
C28_Stored ==
  /\ p_pc = "returned"
  /\ Answered("education", "other")
  /\ resume.education.present
  /\ Len(resume.education.value) = 1

---------------------------------------------------------------------------
(* the entries without an end date in the sorted education list *)

\* the end date the extractor gave for a reply item, under any of its keys
RawEndDate(item) ==
  GetAny(item, <<"end_date", "end", "graduation_date", "end_year", "to", "graduated",
                 "completed">>)

\* no end date, a marker of an education in progress, or no year in it
EndDateMissing(item) ==
  \/ ~Truthy(RawEndDate(item))
  \/ Lower(Strip(RawEndDate(item))) \in {<<"present">>, <<"current">>, <<"ongoing">>}
  \/ \A i \in 1..Len(RawEndDate(item)) : ~YearAt(RawEndDate(item), i)

HasEndYear(entry) == Truthy(entry.end_date) /\ AllDigits(entry.end_date)

---------------------------------------------------------------------------
(* parse_resume applied to raw documents: line endings of several kinds, tabs, *)
(* runs of blanks and of newlines, and the characters the OCR fix rewrites    *)

ZeroEmailLine == <<"1", "0", "@", "acme", ".", "io">>

ZeroPhoneLine ==
  <<"+", "1", " ", "(", "5", "5", "5", ")", " ", "1", "2", "0", "-", "4", "5", "6", "7">>

ZeroUrlLine == GithubLine \o <<"0">>

RawBodyLine == <<"Led", "\t", " ", "1", "0", " ", "|", " ", "teams">>

RawLineEnds == {<<"\n">>, <<"\r", "\n">>, <<" ", "\n", "\n", "\n">>}

\* a contact line, then nothing or one section of a header and a body line
RawDocuments ==
  {Join(<<first>> \o section, ending) :
     first \in {ZeroEmailLine, ZeroPhoneLine, ZeroUrlLine},
     section \in {<<>>} \cup
                 {<<header, RawBodyLine>> :
                    header \in {<<"Experience">>, <<"Education">>, <<"Projects">>,
                                <<"Achievements">>}},
     ending \in RawLineEnds}

InitRawDocument ==
  /\ SegIdle
  /\ NormIdle
  /\ FnIdle
  /\ OrderIdle
  /\ ContactsIdle
  /\ EntriesIdle
  /\ p_text \in TextsUpTo(NormAlphabet, MaxTextLen) \cup RawDocuments
  /\ p_pc = "call"
  /\ normalized_text = <<>>
  /\ p_sections = EmptySections
  /\ p_calls = <<>>
  /\ p_replies = <<>>
  /\ resume = EmptyResume

SpecRawDocument == InitRawDocument /\ [][NextParse]_vars

NoZero(value) == \A n \in 1..Len(value) : value[n] # "0"

\* what C30 says of a text _normalize_text returned
Normalized(t) ==
  /\ \A n \in 1..Len(t) : t[n] \notin {"0", "|", "\r", "\t"}
  /\ \A n \in 1..(Len(t) - 1) : ~(t[n] = " " /\ t[n + 1] = " ")
  /\ \A n \in 1..(Len(t) - 2) : ~(t[n] = "\n" /\ t[n + 1] = "\n" /\ t[n + 2] = "\n")
  /\ t # <<>> => (t[1] \notin Whitespace /\ t[Len(t)] \notin Whitespace)

\* the description of every entry of a list field of the record
Descriptions ==
  UNION {{resume[g].value[k].description : k \in 1..Len(resume[g].value)} :
           g \in {"experience", "education", "projects"}}
    \cup {resume.achievements.value[k] : k \in 1..Len(resume.achievements.value)}

\* C30: the text _normalize_text returns has no 0, no |, no carriage return,
\* no tab, no two spaces in a row, no three newlines in a row and no
\* whitespace at either end; and in the record of parse_resume the values the
\* regex fallback takes from that text, the contacts built from them alone,
\* the descriptions and the achievements hold no 0
C30_NormalizedNoZero ==
  /\ p_pc # "call" => Normalized(normalized_text)
  /\ p_pc = "returned" =>
       /\ NoZero(_extract_email_fallback(normalized_text))
       /\ NoZero(_extract_phone_fallback(normalized_text))
       /\ \A field \in UrlFields : NoZero(_extract_urls_fallback(normalized_text)[field])
       /\ (p_replies # <<>> /\ p_replies[1] \in {"failed", "bad_shape"}) =>
            \A field \in ContactFields : NoZero(resume.contacts[field])
       /\ \A description \in Descriptions : NoZero(description)

\* a document with CR LF line ends, an e-mail address with a 0 and an
\* experience section, the extractor failing on the contacts and answering the
\* experience prompt with a description that holds a 0
C30_Witness ==
  /\ p_pc = "returned"
  /\ p_text = Join(<<ZeroEmailLine, <<"Experience">>, RawBodyLine>>, <<"\r", "\n">>)
  /\ p_replies[1] = "failed"
  /\ Truthy(resume.contacts.email)
  /\ resume.experience.present
  /\ resume.experience.value[1].description = <<"Led", " ", "1", "O", " ", "teams">>

====
